---- MODULE Spec2Model ----
(***************************************************************************)
(* Model of swagger-mcp: the TF-IDF semantic search engine                 *)
(* (semantic-search.ts), the document extractor (vector-store.ts) and the  *)
(* background indexing loop with its tool handlers (index.ts).             *)
(*                                                                         *)
(* Text is a sequence of one-character strings, so that tokenizing, case   *)
(* conversion and string building are computed character by character.     *)
(* Real numbers are exact rationals <<numerator, denominator>>; Math.log   *)
(* is a table of natural logarithms in tenths; a cosine score, which       *)
(* needs a square root, is kept as its sign and its exact square.          *)
(***************************************************************************)
EXTENDS Integers, Sequences, FiniteSets, TLC

VARIABLES
    documents,        \* SemanticSearch.documents: Map in insertion order, a sequence of VectorDocument
    documentVectors,  \* SemanticSearch.documentVectors: id -> TF vector
    idf,              \* SemanticSearch.idf: token -> Math.log value
    totalDocs,        \* SemanticSearch.totalDocs
    indexingInProgress,  \* index.ts: let indexingInProgress
    indexingComplete,    \* index.ts: let indexingComplete
    indexingProgress,    \* index.ts: let indexingProgress = { current, total }
    pc,               \* where the background indexing callback stands
    loopIndex,        \* the variable i of the indexing loop
    pending,          \* the extracted documents indexSwagger has still to record
    result,           \* the last call and what it returned
    calls,            \* the number of indexSwagger, clear and fetchSwagger calls so far
    cache,            \* SwaggerFetcher.cache: slug -> document and timestamp
    cacheTimeout,     \* SwaggerFetcher.cacheTimeout, in milliseconds
    now,              \* Date.now(), in milliseconds since the start
    inflight          \* the requests of tool calls that await their response

engine == <<documents, documentVectors, idf, totalDocs>>
background == <<indexingInProgress, indexingComplete, indexingProgress, pc, loopIndex, pending>>
fetcher == <<cache, cacheTimeout, now, inflight>>
vars == <<documents, documentVectors, idf, totalDocs, indexingInProgress, indexingComplete,
          indexingProgress, pc, loopIndex, pending, result, calls,
          cache, cacheTimeout, now, inflight>>

-----------------------------------------------------------------------------
(* Sequences and maps *)

\* the value of f, built once: TLC otherwise recomputes f[x] at every use
Force(f) == IF f = f THEN f ELSE f

\* F(v) with v computed once: a bound variable holds a value, while TLC
\* computes an argument or a LET definition anew at each use when it
\* evaluates ENABLED
Bind(v, F(_)) == CHOOSE r \in {F(x) : x \in {v}} : TRUE

\* the elements of a finite set of integers in ascending order
Ascending(S) ==
    Bind(S, LAMBDA T :
        [k \in 1..Cardinality(T) |-> CHOOSE i \in T : Cardinality({j \in T : j < i}) = k - 1])

Range(s) == {s[i] : i \in 1..Len(s)}

EmptyMap == [t \in {} |-> 0]

RECURSIVE Join(_, _)
\* Array.prototype.join
Join(parts, sep) ==
    IF Len(parts) = 0 THEN <<>>
    ELSE IF Len(parts) = 1 THEN parts[1]
    ELSE parts[1] \o sep \o Join(Tail(parts), sep)

\* Array.prototype.slice(0, end): a negative end counts from the back
\* a slice that keeps every item
sliceAll(items, end) == items

slice0(items, end) ==
    LET n == Len(items)
        stop == IF end < 0 THEN (IF n + end < 0 THEN 0 ELSE n + end)
                ELSE (IF end > n THEN n ELSE end)
    IN SubSeq(items, 1, stop)

-----------------------------------------------------------------------------
(* JavaScript numbers: the IEEE 754 doubles from 2^-6 to 4 are multiples   *)
(* of 2^-58; such a double is kept as that multiple, in four limbs of 15   *)
(* bits, the most significant first.  The vectors of the model hold the    *)
(* exact quotients; divide gives the double that the code stores for one.  *)

Limb == 2^15

\* the double 1
One == <<2^13, 0, 0, 0>>

\* the number of bits of a limb
bitLength(x) == IF x = 0 THEN 0 ELSE CHOOSE b \in 1..16 : 2^(b - 1) <= x /\ x < 2^b

\* the exact sum
addLimbs(a, b) ==
    LET s4 == a[4] + b[4]
        s3 == a[3] + b[3] + s4 \div Limb
        s2 == a[2] + b[2] + s3 \div Limb
        s1 == a[1] + b[1] + s2 \div Limb
    IN <<s1, s2 % Limb, s3 % Limb, s4 % Limb>>

\* a <= b
limbsLeq(a, b) ==
    \/ a = b
    \/ \E i \in 1..4 : a[i] < b[i] /\ \A j \in 1..(i - 1) : a[j] = b[j]

\* the double nearest to x + remNum / remDen (0 <= remNum < remDen), ties to
\* the even significand: 53 significant bits are kept
roundToDouble(x, remNum, remDen) ==
    LET length == 45 + bitLength(x[1])
        drop == IF length > 53 THEN length - 53 ELSE 0
        unit == 2^drop
        low == x[4] % unit
        kept == <<x[1], x[2], x[3], x[4] - low>>
        twice == 2 * (low * remDen + remNum)
        odd == (x[4] \div unit) % 2 = 1
        up == twice > unit * remDen \/ (twice = unit * remDen /\ odd)
    IN IF up THEN addLimbs(kept, <<0, 0, 0, unit>>) ELSE kept

\* count / total for 0 < count <= total <= 64
divide(count, total) ==
    LET q1 == (count * 2^13) \div total
        r1 == (count * 2^13) % total
        q2 == (r1 * Limb) \div total
        r2 == (r1 * Limb) % total
        q3 == (r2 * Limb) \div total
        r3 == (r2 * Limb) % total
        q4 == (r3 * Limb) \div total
        r4 == (r3 * Limb) % total
    IN roundToDouble(<<q1, q2, q3, q4>>, r4, total)

\* a + b on doubles
plus(a, b) == Bind(addLimbs(a, b), LAMBDA sum : roundToDouble(sum, 0, 1))

-----------------------------------------------------------------------------
(* Characters *)

UpperLetters == <<"A","B","C","D","E","F","G","H","I","J","K","L","M",
                  "N","O","P","Q","R","S","T","U","V","W","X","Y","Z">>
LowerLetters == <<"a","b","c","d","e","f","g","h","i","j","k","l","m",
                  "n","o","p","q","r","s","t","u","v","w","x","y","z">>
DigitChars == {"0","1","2","3","4","5","6","7","8","9"}
SpaceChars == {" ", "\t", "\n", "\r"}

UpperSet == Range(UpperLetters)
LowerSet == Range(LowerLetters)

LowerOf == [c \in UpperSet |->
               LowerLetters[CHOOSE i \in 1..Len(UpperLetters) : UpperLetters[i] = c]]
UpperOf == [c \in LowerSet |->
               UpperLetters[CHOOSE i \in 1..Len(LowerLetters) : LowerLetters[i] = c]]

lowerChar(c) == IF c \in UpperSet THEN LowerOf[c] ELSE c

upperChar(c) == IF c \in LowerSet THEN UpperOf[c] ELSE c

toLowerCase(text) == [i \in 1..Len(text) |-> lowerChar(text[i])]
toUpperCase(text) == [i \in 1..Len(text) |-> upperChar(text[i])]

-----------------------------------------------------------------------------
(* Rational arithmetic *)

RECURSIVE GCD(_, _)
GCD(a, b) == IF b = 0 THEN a ELSE GCD(b, a % b)

Abs(a) == IF a < 0 THEN -a ELSE a

Frac(n, d) ==
    LET g == GCD(Abs(n), Abs(d))
    IN IF n = 0 THEN <<0, 1>> ELSE <<n \div g, d \div g>>

Zero == <<0, 1>>

Reduce(x) == Frac(x[1], x[2])

RMul(x, y) == <<x[1] * y[1], x[2] * y[2]>>

\* the product in lowest terms, cancelling before multiplying
RMulReduced(x, y) ==
    LET a == Frac(x[1], y[2])
        b == Frac(y[1], x[2])
    IN <<a[1] * b[1], a[2] * b[2]>>

RDivReduced(x, y) == RMulReduced(x, <<y[2], y[1]>>)

RAdd(x, y) ==
    LET g == GCD(x[2], y[2])
    IN <<x[1] * (y[2] \div g) + y[1] * (x[2] \div g), (x[2] \div g) * y[2]>>

IsZero(x) == x[1] = 0

REq(x, y) == x[1] * y[2] = y[1] * x[2]

RECURSIVE FracLeq(_, _, _, _)
\* a/b <= c/d for a, c >= 0 and b, d > 0, by continued fractions
FracLeq(a, b, c, d) ==
    IF a \div b # c \div d THEN a \div b < c \div d
    ELSE IF a % b = 0 THEN TRUE
    ELSE IF c % d = 0 THEN FALSE
    ELSE FracLeq(d, c % d, b, a % b)

\* x <= y for rationals of any sign
RLeq(x, y) ==
    IF x[1] < 0 /\ y[1] >= 0 THEN TRUE
    ELSE IF x[1] >= 0 /\ y[1] < 0 THEN FALSE
    ELSE IF x[1] >= 0 THEN FracLeq(x[1], x[2], y[1], y[2])
    ELSE FracLeq(-y[1], y[2], -x[1], x[2])

RECURSIVE RSumOver(_, _)
RSumOver(keys, f) ==
    IF keys = {} THEN Zero
    ELSE LET t == CHOOSE t \in keys : TRUE
         IN RAdd(f[t], RSumOver(keys \ {t}, f))

\* the sum of the values of a map
RSum(f) == RSumOver(DOMAIN f, f)

\* natural logarithms of 1..12 in tenths (strictly increasing, ln(a*b) = ln a + ln b)
LnTenths == <<0, 7, 11, 14, 16, 18, 19, 21, 22, 23, 24, 25>>

\* Math.log(n / d) for positive integers n and d; it is 0 exactly when n = d
MathLog(n, d) == Frac(LnTenths[n] - LnTenths[d], 10)

\* JavaScript truthiness of a number: 0 is falsy
Truthy(x) == x[1] # 0

-----------------------------------------------------------------------------
(* semantic-search.ts: private helpers *)

\* String.prototype.split(/\s+/): the runs of characters that are no
\* whitespace, in order; an empty piece comes first when the text is empty or
\* starts with whitespace, and last when it ends with whitespace
splitWhitespace(s) ==
    Bind(s, LAMBDA t :
        LET n == Len(t)
            solid(i) == t[i] \notin SpaceChars
            starts == {i \in 1..n : solid(i) /\ (i = 1 \/ ~solid(i - 1))}
            endOf(i) == CHOOSE j \in i..n :
                            /\ \A k \in i..j : solid(k)
                            /\ (j = n \/ ~solid(j + 1))
            leading == IF n = 0 \/ ~solid(1) THEN << <<>> >> ELSE <<>>
            trailing == IF n > 0 /\ ~solid(n) THEN << <<>> >> ELSE <<>>
        IN Bind(Ascending(starts), LAMBDA order :
               leading
               \o [k \in 1..Len(order) |-> SubSeq(t, order[k], endOf(order[k]))]
               \o trailing))

\* the characters the pattern /[^a-z0-9\s]/ leaves alone
TokenChars == LowerSet \cup DigitChars \cup SpaceChars

isTokenChar(c) == c \in TokenChars

\* a tokenizer that keeps the tokens of two characters
tokenizeKeepingTwo(text) ==
    LET lowered == toLowerCase(text)
        replaced == [i \in 1..Len(lowered) |->
                        IF isTokenChar(lowered[i]) THEN lowered[i] ELSE " "]
    IN SelectSeq(splitWhitespace(replaced), LAMBDA token : Len(token) > 1)

tokenize(text) ==
    LET lowered == toLowerCase(text)
        replaced == [i \in 1..Len(lowered) |->
                        IF isTokenChar(lowered[i]) THEN lowered[i] ELSE " "]
    IN SelectSeq(splitWhitespace(replaced), LAMBDA token : Len(token) > 2)

countOf(token, tokens) == Cardinality({i \in 1..Len(tokens) : tokens[i] = token})

createTFVectorCounting(text) ==
    Bind(tokenize(text), LAMBDA tokens :
        Force([token \in Range(tokens) |-> Frac(countOf(token, tokens), 1)]))

createTFVector(text) ==
    Bind(tokenize(text), LAMBDA tokens :
        LET total == Len(tokens)
        IN Force([token \in Range(tokens) |-> Frac(countOf(token, tokens), total)]))

\* the number of TF vectors that contain the token
documentFrequency(vectors, token) ==
    Cardinality({id \in DOMAIN vectors : token \in DOMAIN vectors[id]})

vocabulary(vectors) == UNION {DOMAIN vectors[id] : id \in DOMAIN vectors}

\* calculateIDF with the quotient upside down
calculateIDFInverted(vectors, total, oldIdf) ==
    [token \in DOMAIN oldIdf \cup vocabulary(vectors) |->
        IF token \in vocabulary(vectors)
        THEN MathLog(documentFrequency(vectors, token), total)
        ELSE oldIdf[token]]

\* the idf map after calculateIDF(): entries are set, never removed
calculateIDF(vectors, total, oldIdf) ==
    [token \in DOMAIN oldIdf \cup vocabulary(vectors) |->
        IF token \in vocabulary(vectors)
        THEN MathLog(total, documentFrequency(vectors, token))
        ELSE oldIdf[token]]

\* the IDF entry of the token when it has one, whatever its value
idfValueStored(token, idfMap, total) ==
    IF token \in DOMAIN idfMap THEN idfMap[token] ELSE MathLog(total, 1)

\* this.idf.get(token) || Math.log(this.totalDocs)
idfValueOf(token, idfMap, total) ==
    IF token \in DOMAIN idfMap /\ Truthy(idfMap[token])
    THEN idfMap[token]
    ELSE MathLog(total, 1)

weigh(tf, idfMap, total) ==
    Force([token \in DOMAIN tf |->
              Reduce(RMul(tf[token], idfValueOf(token, idfMap, total)))])

createTFIDFVector(text, idfMap, total) == weigh(createTFVector(text), idfMap, total)

getTFIDFVector(documentId, vectors, idfMap, total) ==
    IF documentId \notin DOMAIN vectors THEN EmptyMap
    ELSE weigh(vectors[documentId], idfMap, total)

\* A cosine score: 0, or the sign of the dot product and the exact square
\* dot^2 / (norm1 * norm2) of dot / (sqrt(norm1) * sqrt(norm2)).
ScoreZero == [neg |-> FALSE, sq |-> Zero]

\* a similarity without the test for a zero norm: 0 / 0, not a number
cosineSimilarityUnguarded(vec1, vec2) ==
    LET dotProduct == RSum([token \in DOMAIN vec1 |->
                            RMul(vec1[token],
                                 IF token \in DOMAIN vec2 /\ Truthy(vec2[token])
                                 THEN vec2[token] ELSE Zero)])
        norm1 == RSum([token \in DOMAIN vec1 |-> RMul(vec1[token], vec1[token])])
        norm2 == RSum([token \in DOMAIN vec2 |-> RMul(vec2[token], vec2[token])])
    IN IF IsZero(norm1) \/ IsZero(norm2) THEN [neg |-> FALSE, sq |-> <<0, 0>>]
       ELSE LET dot == Reduce(dotProduct)
            IN [neg |-> dot[1] < 0,
                sq |-> RDivReduced(RMul(dot, dot),
                                   RMulReduced(Reduce(norm1), Reduce(norm2)))]

cosineSimilarity(vec1, vec2) ==
    LET dotProduct == RSum([token \in DOMAIN vec1 |->
                            RMul(vec1[token],
                                 IF token \in DOMAIN vec2 /\ Truthy(vec2[token])
                                 THEN vec2[token] ELSE Zero)])
        norm1 == RSum([token \in DOMAIN vec1 |-> RMul(vec1[token], vec1[token])])
        norm2 == RSum([token \in DOMAIN vec2 |-> RMul(vec2[token], vec2[token])])
    IN IF IsZero(norm1) \/ IsZero(norm2) THEN ScoreZero
       ELSE LET dot == Reduce(dotProduct)
            IN [neg |-> dot[1] < 0,
                sq |-> RDivReduced(RMul(dot, dot),
                                   RMulReduced(Reduce(norm1), Reduce(norm2)))]

\* a <= b on scores
ScoreLeq(a, b) ==
    IF a.neg /\ ~b.neg THEN TRUE
    ELSE IF ~a.neg /\ b.neg THEN FALSE
    ELSE IF ~a.neg THEN RLeq(a.sq, b.sq)
    ELSE RLeq(b.sq, a.sq)

ScoreLess(a, b) == ~ScoreLeq(b, a)

\* score <= threshold
ScoreAtMost(score, threshold) ==
    IF threshold[1] <= 0
    THEN score.neg \/ score.sq = Zero
    ELSE score.neg \/ RLeq(score.sq, RMul(threshold, threshold))

\* a comparison that lets every score pass
ScoreAtLeastAlways(score, threshold) == TRUE

\* score >= threshold, the threshold a rational
ScoreAtLeast(score, threshold) ==
    IF threshold[1] <= 0
    THEN ~score.neg \/ RLeq(score.sq, RMul(threshold, threshold))
    ELSE ~score.neg /\ RLeq(RMul(threshold, threshold), score.sq)

ScoreIsOne == [neg |-> FALSE, sq |-> <<1, 1>>]

RECURSIVE insertBeforeEqual(_, _)
\* place the item before every item whose score is not greater
insertBeforeEqual(sorted, item) ==
    IF Len(sorted) = 0 THEN <<item>>
    ELSE IF ScoreLeq(Head(sorted).score, item.score)
         THEN <<item>> \o sorted
         ELSE <<Head(sorted)>> \o insertBeforeEqual(Tail(sorted), item)

RECURSIVE insertByScore(_, _)
\* place the item after every item whose score is not smaller
insertByScore(sorted, item) ==
    IF Len(sorted) = 0 THEN <<item>>
    ELSE IF ScoreLess(Head(sorted).score, item.score)
         THEN <<item>> \o sorted
         ELSE <<Head(sorted)>> \o insertByScore(Tail(sorted), item)

RECURSIVE sortDescending(_)
\* Array.prototype.sort((a, b) => b.score - a.score), which is stable
sortDescending(items) ==
    IF Len(items) = 0 THEN <<>>
    ELSE insertByScore(sortDescending(SubSeq(items, 1, Len(items) - 1)),
                       items[Len(items)])

-----------------------------------------------------------------------------
(* vector-store.ts: SwaggerVectorizer                                      *)
(* A parsed JSON object is the sequence of its entries in the order        *)
(* Object.entries yields them; an optional property that is absent is      *)
(* absent from the record.                                                 *)

Has(obj, field) == field \in DOMAIN obj

HttpMethods == {<<"g","e","t">>, <<"p","o","s","t">>, <<"p","u","t">>, <<"d","e","l","e","t","e">>, <<"p","a","t","c","h">>, <<"o","p","t","i","o","n","s">>, <<"h","e","a","d">>}

isHttpMethod(method) == toLowerCase(method) \in HttpMethods

\* JSON.stringify of an array of objects whose values are strings
stringifyObject(obj) ==
    <<"{">>
    \o Join([i \in 1..Len(obj) |->
                <<"\"">> \o obj[i].key \o <<"\"",":","\"">> \o obj[i].value \o <<"\"">>], <<",">>)
    \o <<"}">>

JSONstringify(array) ==
    <<"[">> \o Join([i \in 1..Len(array) |-> stringifyObject(array[i])], <<",">>) \o <<"]">>

\* parts.filter(Boolean): the empty string is falsy
filterBoolean(parts) == SelectSeq(parts, LAMBDA part : Len(part) > 0)

buildEndpointContent(path, method, operation) ==
    LET parts == <<
            toUpperCase(method) \o <<" ">> \o path,
            IF Has(operation, "summary") THEN operation.summary ELSE <<>>,
            IF Has(operation, "description") THEN operation.description ELSE <<>>,
            IF Has(operation, "tags") THEN Join(operation.tags, <<" ">>) ELSE <<>>,
            <<"o","p","e","r","a","t","i","o","n","I","d",":"," ">> \o (IF Has(operation, "operationId") THEN operation.operationId ELSE <<>>)
        >>
        withParameters ==
            IF Has(operation, "parameters")
            THEN Append(parts, <<"P","a","r","a","m","e","t","e","r","s",":"," ">> \o JSONstringify(operation.parameters))
            ELSE parts
        withResponses ==
            IF Has(operation, "responses")
            THEN Append(withParameters, <<"R","e","s","p","o","n","s","e","s",":"," ">> \o Join(operation.responses, <<","," ">>))
            ELSE withParameters
    IN Join(filterBoolean(withResponses), <<" ","|"," ">>)

buildSchemaContent(name, schema) ==
    LET parts == <<
            <<"S","c","h","e","m","a",":"," ">> \o name,
            IF Has(schema, "description") THEN schema.description ELSE <<>>,
            <<"T","y","p","e",":"," ">> \o (IF Has(schema, "type") /\ Len(schema.type) > 0
                       THEN schema.type ELSE <<"o","b","j","e","c","t">>)
        >>
        withProperties ==
            IF Has(schema, "properties")
            THEN Append(parts, <<"P","r","o","p","e","r","t","i","e","s",":"," ">> \o Join(schema.properties, <<","," ">>))
            ELSE parts
    IN Join(filterBoolean(withProperties), <<" ","|"," ">>)

\* an endpoint document whose id leaves out the service
endpointDocumentUnprefixed(serviceName, path, method, operation) ==
    [id |-> method \o <<"-">> \o path,
     content |-> buildEndpointContent(path, method, operation),
     metadata |-> IF Has(operation, "operationId")
                  THEN [service |-> serviceName, path |-> path,
                        method |-> toUpperCase(method),
                        operationId |-> operation.operationId, type |-> "endpoint"]
                  ELSE [service |-> serviceName, path |-> path,
                        method |-> toUpperCase(method), type |-> "endpoint"]]

endpointDocument(serviceName, path, method, operation) ==
    [id |-> serviceName \o <<"-">> \o method \o <<"-">> \o path,
     content |-> buildEndpointContent(path, method, operation),
     metadata |-> IF Has(operation, "operationId")
                  THEN [service |-> serviceName, path |-> path,
                        method |-> toUpperCase(method),
                        operationId |-> operation.operationId, type |-> "endpoint"]
                  ELSE [service |-> serviceName, path |-> path,
                        method |-> toUpperCase(method), type |-> "endpoint"]]

schemaDocument(serviceName, name, schema) ==
    [id |-> serviceName \o <<"-","s","c","h","e","m","a","-">> \o name,
     content |-> buildSchemaContent(name, schema),
     metadata |-> [service |-> serviceName, type |-> "schema"]]

\* the endpoint documents of one path item, in the order of its keys
pathDocuments(serviceName, path, pathItem) ==
    LET operations == SelectSeq(pathItem.entries, LAMBDA e : isHttpMethod(e.key))
    IN [i \in 1..Len(operations) |->
            endpointDocument(serviceName, path, operations[i].key, operations[i].value)]

RECURSIVE endpointDocuments(_, _)
endpointDocuments(serviceName, paths) ==
    IF Len(paths) = 0 THEN <<>>
    ELSE pathDocuments(serviceName, paths[1].path, paths[1].item)
         \o endpointDocuments(serviceName, Tail(paths))

\* swagger.components?.schemas || swagger.definitions, as <<found, schemas>>
schemasOf(swagger) ==
    IF Has(swagger, "components") /\ Has(swagger.components, "schemas")
    THEN <<TRUE, swagger.components.schemas>>
    ELSE IF Has(swagger, "definitions") THEN <<TRUE, swagger.definitions>>
    ELSE <<FALSE, <<>>>>

\* an extraction that reads the entries of swagger.paths without testing it
extractThrowsWithoutPaths(swagger) ==
    \/ ~Has(swagger, "paths")
    \/ \E i \in 1..Len(swagger.paths) : swagger.paths[i].item.kind = "null"
    \/ \E i \in 1..Len(schemasOf(swagger)[2]) : schemasOf(swagger)[2][i].schema.kind = "null"

\* Object.entries(null) and a property read of null raise a TypeError
extractThrows(swagger) ==
    \/ /\ Has(swagger, "paths")
       /\ \E i \in 1..Len(swagger.paths) : swagger.paths[i].item.kind = "null"
    \/ \E i \in 1..Len(schemasOf(swagger)[2]) : schemasOf(swagger)[2][i].schema.kind = "null"

extractDocuments(swagger, serviceName) ==
    LET endpoints == IF Has(swagger, "paths")
                     THEN endpointDocuments(serviceName, swagger.paths)
                     ELSE <<>>
        schemas == schemasOf(swagger)[2]
    IN endpoints
       \o [i \in 1..Len(schemas) |->
              schemaDocument(serviceName, schemas[i].name, schemas[i].schema)]

-----------------------------------------------------------------------------
(* swagger-analyzer.ts: SwaggerAnalyzer.extractEndpoints *)

\* the keys extractEndpoints takes for operations, compared as they are
AnalyzerMethods == { <<"g","e","t">>, <<"p","o","s","t">>, <<"p","u","t">>, <<"d","e","l","e","t","e">>, <<"p","a","t","c","h">>, <<"o","p","t","i","o","n","s">>, <<"h","e","a","d">> }

\* Object.entries of a path item that is null raises a TypeError
extractEndpointsThrows(doc) ==
    /\ Has(doc, "paths")
    /\ \E i \in 1..Len(doc.paths) : doc.paths[i].item.kind = "null"

\* the pushed object; a property the operation lacks is undefined and is
\* left out here
endpointEntry(path, method, operation) ==
    [path |-> path, method |-> toUpperCase(method)]
        @@ [f \in DOMAIN operation \cap {"summary", "operationId", "tags"} |-> operation[f]]

\* the entries of one path item, with the keys compared without their case
pathEndpointsAnyCase(path, pathItem) ==
    LET operations == SelectSeq(pathItem.entries, LAMBDA e : isHttpMethod(e.key))
    IN [i \in 1..Len(operations) |->
            endpointEntry(path, operations[i].key, operations[i].value)]

\* the entries of one path item, in the order of its keys
pathEndpoints(path, pathItem) ==
    LET operations == SelectSeq(pathItem.entries, LAMBDA e : e.key \in AnalyzerMethods)
    IN [i \in 1..Len(operations) |->
            endpointEntry(path, operations[i].key, operations[i].value)]

RECURSIVE allEndpoints(_)
allEndpoints(paths) ==
    IF Len(paths) = 0 THEN <<>>
    ELSE pathEndpoints(paths[1].path, paths[1].item) \o allEndpoints(Tail(paths))

extractEndpoints(doc) ==
    IF Has(doc, "paths") THEN allEndpoints(doc.paths) ELSE <<>>

-----------------------------------------------------------------------------
(* swagger-fetcher.ts: SwaggerFetcher *)

\* private cacheTimeout: number = 30 * 60 * 1000
DefaultCacheTimeout == 30 * 60 * 1000

\* this.services.find((s) => s.slug === slug)
knownSlug(services, slug) == \E k \in 1..Len(services) : services[k].slug = slug

\* a test of the cache that takes any entry, whatever its age
cacheFreshWhateverAge(entries, slug, time, timeout) == slug \in DOMAIN entries

\* cached && Date.now() - cached.timestamp < this.cacheTimeout
cacheFresh(entries, slug, time, timeout) ==
    /\ slug \in DOMAIN entries
    /\ time - entries[slug].timestamp < timeout

\* this.cache.set(slug, { document, timestamp: Date.now(), service })
cacheSet(entries, slug, document, time) ==
    [s \in DOMAIN entries \cup {slug} |->
        IF s = slug THEN [document |-> document, timestamp |-> time] ELSE entries[s]]

-----------------------------------------------------------------------------
(* semantic-search.ts: SemanticSearch, on the index                        *)
(* st = [documents, documentVectors, idf, totalDocs]                       *)

EmptyIndex ==
    [documents |-> <<>>, documentVectors |-> EmptyMap, idf |-> EmptyMap, totalDocs |-> 0]

idsOf(docs) == {docs[i].id : i \in 1..Len(docs)}

\* a store that adds an entry for every document it is given
mapSetAppending(docs, doc) == Append(docs, doc)

\* Map.prototype.set on the document store: a known key keeps its position
mapSet(docs, doc) ==
    IF doc.id \in idsOf(docs)
    THEN [i \in 1..Len(docs) |-> IF docs[i].id = doc.id THEN doc ELSE docs[i]]
    ELSE Append(docs, doc)

\* Map.prototype.set on the TF vectors
vectorSet(vectors, id, vector) ==
    [k \in DOMAIN vectors \cup {id} |-> IF k = id THEN vector ELSE vectors[k]]

RECURSIVE storeDocuments(_, _, _)
\* the loop of indexSwagger over the extracted documents
storeDocuments(docs, vectors, batch) ==
    IF Len(batch) = 0 THEN [documents |-> docs, documentVectors |-> vectors]
    ELSE storeDocuments(mapSet(docs, Head(batch)),
                        vectorSet(vectors, Head(batch).id, createTFVector(Head(batch).content)),
                        Tail(batch))

\* the body of indexSwagger after the extraction, on any list of documents
indexDocuments(st, batch) ==
    LET stored == storeDocuments(st.documents, st.documentVectors, batch)
        total == Len(stored.documents)
    IN [documents |-> stored.documents,
        documentVectors |-> stored.documentVectors,
        idf |-> calculateIDF(stored.documentVectors, total, st.idf),
        totalDocs |-> total]

\* indexSwagger with a count that adds the size of the batch
indexSwaggerCounting(st, swagger, service) ==
    LET batch == extractDocuments(swagger, service.slug)
        stored == storeDocuments(st.documents, st.documentVectors, batch)
        total == st.totalDocs + Len(batch)
    IN [documents |-> stored.documents,
        documentVectors |-> stored.documentVectors,
        idf |-> calculateIDF(stored.documentVectors, total, st.idf),
        totalDocs |-> total]

indexSwagger(st, swagger, service) ==
    LET stored == storeDocuments(st.documents, st.documentVectors,
                                 extractDocuments(swagger, service.slug))
        total == Len(stored.documents)
    IN [documents |-> stored.documents,
        documentVectors |-> stored.documentVectors,
        idf |-> calculateIDF(stored.documentVectors, total, st.idf),
        totalDocs |-> total]

\* a clear that forgets the documents and keeps the IDF table
clearDocumentsOnly(st) ==
    [documents |-> <<>>, documentVectors |-> EmptyMap, idf |-> st.idf, totalDocs |-> 0]

clear(st) == EmptyIndex

\* the score of every stored document against a vector, in insertion order
scoreAll(st, vector) == Force(
    [i \in 1..Len(st.documents) |->
        [doc |-> st.documents[i],
         score |-> cosineSimilarity(vector,
                      getTFIDFVector(st.documents[i].id, st.documentVectors,
                                     st.idf, st.totalDocs))]])

docsOf(items) == [i \in 1..Len(items) |-> items[i].doc]

\* search without the sort
searchUnsorted(st, query, limit, threshold) ==
    LET queryVector == createTFIDFVector(query, st.idf, st.totalDocs)
        scores == SelectSeq(scoreAll(st, queryVector),
                            LAMBDA item : ScoreAtLeast(item.score, threshold))
    IN docsOf(slice0(scores, limit))

search(st, query, limit, threshold) ==
    LET queryVector == createTFIDFVector(query, st.idf, st.totalDocs)
        scores == SelectSeq(scoreAll(st, queryVector),
                            LAMBDA item : ScoreAtLeast(item.score, threshold))
    IN docsOf(slice0(sortDescending(scores), limit))

\* findSimilar with the threshold of search
findSimilarThresholded(st, documentId, limit) ==
    IF documentId \notin idsOf(st.documents) THEN <<>>
    ELSE LET targetVector == getTFIDFVector(documentId, st.documentVectors,
                                            st.idf, st.totalDocs)
             scores == SelectSeq(scoreAll(st, targetVector),
                                 LAMBDA item : /\ item.doc.id # documentId
                                               /\ ScoreAtLeast(item.score, <<1, 10>>))
         IN docsOf(slice0(sortDescending(scores), limit))

\* findSimilar without the test for an unknown id
findSimilarUnguarded(st, documentId, limit) ==
    LET targetVector == getTFIDFVector(documentId, st.documentVectors,
                                       st.idf, st.totalDocs)
        scores == SelectSeq(scoreAll(st, targetVector),
                            LAMBDA item : item.doc.id # documentId)
    IN docsOf(slice0(sortDescending(scores), limit))

findSimilar(st, documentId, limit) ==
    IF documentId \notin idsOf(st.documents) THEN <<>>
    ELSE LET targetVector == getTFIDFVector(documentId, st.documentVectors,
                                            st.idf, st.totalDocs)
             scores == SelectSeq(scoreAll(st, targetVector),
                                 LAMBDA item : item.doc.id # documentId)
         IN docsOf(slice0(sortDescending(scores), limit))

isPrefix(t, token) == Len(t) <= Len(token) /\ SubSeq(token, 1, Len(t)) = t

\* the elements in the order of their first occurrence, as a Set keeps them
distinct(items) ==
    LET first == Ascending({i \in 1..Len(items) : \A j \in 1..(i - 1) : items[j] # items[i]})
    IN [k \in 1..Len(first) |-> items[first[k]]]

RECURSIVE allTokens(_)
allTokens(docs) ==
    IF Len(docs) = 0 THEN <<>>
    ELSE tokenize(toLowerCase(Head(docs).content)) \o allTokens(Tail(docs))

getSuggestions(st, partialQuery, limit) ==
    LET tokens == tokenize(toLowerCase(partialQuery))
        matching == SelectSeq(allTokens(st.documents),
                        LAMBDA token : \E i \in 1..Len(tokens) : isPrefix(tokens[i], token))
    IN slice0(distinct(matching), limit)

\* statistics that list the service of every document, repeats included
getStatsPerDocument(st) ==
    [totalDocuments |-> st.totalDocs,
     totalTerms |-> Cardinality(DOMAIN st.idf),
     services |-> [i \in 1..Len(st.documents) |-> st.documents[i].metadata.service],
     endpoints |-> Cardinality({i \in 1..Len(st.documents) :
                                    st.documents[i].metadata.type = "endpoint"}),
     schemas |-> Cardinality({i \in 1..Len(st.documents) :
                                  st.documents[i].metadata.type = "schema"})]

getStats(st) ==
    [totalDocuments |-> st.totalDocs,
     totalTerms |-> Cardinality(DOMAIN st.idf),
     services |-> distinct([i \in 1..Len(st.documents) |-> st.documents[i].metadata.service]),
     endpoints |-> Cardinality({i \in 1..Len(st.documents) :
                                    st.documents[i].metadata.type = "endpoint"}),
     schemas |-> Cardinality({i \in 1..Len(st.documents) :
                                  st.documents[i].metadata.type = "schema"})]

-----------------------------------------------------------------------------
(* Inputs *)

\* the number of indexSwagger and clear calls of a run
MaxCalls == 2

Obj(entries) == [kind |-> "object", entries |-> entries]

Services ==
    << [name |-> <<"S","e","r","v","i","c","e"," ","O","n","e">>, slug |-> <<"s","1">>],
       [name |-> <<"S","e","r","v","i","c","e"," ","T","w","o">>, slug |-> <<"s","2">>] >>

PaymentsApi ==
    [paths |-> <<
        [path |-> <<"/","p","a","y","m","e","n","t","s">>,
         item |-> Obj(<< [key |-> <<"g","e","t">>,
                          value |-> [summary |-> <<"C","r","e","a","t","e"," ","p","a","y","m","e","n","t">>,
                                     description |-> <<"p","a","y","m","e","n","t"," ","p","r","o","c","e","s","s","i","n","g">>]] >>)] >>]

UsersApi ==
    [paths |-> <<
        [path |-> <<"/","u","s","e","r","s">>,
         item |-> Obj(<< [key |-> <<"g","e","t">>,
                          value |-> [summary |-> <<"L","i","s","t"," ","u","s","e","r","s">>,
                                     tags |-> << <<"u","s","e","r","s">> >>,
                                     operationId |-> <<"l","i","s","t","U","s","e","r","s">>,
                                     responses |-> << <<"2","0","0">>, <<"4","0","4">> >>]] >>)] >>,
     components |-> [schemas |-> <<
        [name |-> <<"P","e","t">>,
         schema |-> [kind |-> "object", type |-> <<"o","b","j","e","c","t">>,
                     properties |-> << <<"n","a","m","e">>, <<"t","a","g">> >>]] >>]]

\* the users service after a change of its documentation, as a Swagger 2
\* document: definitions, a key that is no method, an upper-case method key
ChangedApi ==
    [paths |-> <<
        [path |-> <<"/","u","s","e","r","s">>,
         item |-> Obj(<< [key |-> <<"s","u","m","m","a","r","y">>, value |-> EmptyMap],
                         [key |-> <<"g","e","t">>,
                          value |-> [summary |-> <<"F","e","t","c","h"," ","a","c","c","o","u","n","t","s">>,
                                     parameters |-> << << [key |-> <<"n","a","m","e">>, value |-> <<"p","a","g","e">>],
                                                          [key |-> <<"i","n">>, value |-> <<"q","u","e","r","y">>] >> >>]]
                      >>)],
        [path |-> <<"/","p","e","t","s">>,
         item |-> Obj(<< [key |-> <<"G","E","T">>, value |-> [summary |-> <<"L","i","s","t"," ","p","e","t","s">>]] >>)] >>,
     definitions |-> <<
        [name |-> <<"P","e","t">>,
         schema |-> [kind |-> "object", description |-> <<"G","e","t"," ","a"," ","p","e","t">>]] >>]

\* a document with neither paths nor schemas
EmptyApi == [info |-> <<"e","m","p","t","y">>]

\* a document whose path item is null
BrokenApi == [paths |-> << [path |-> <<"/","b","r","o","k","e","n">>, item |-> [kind |-> "null"]] >>]

Swaggers == {PaymentsApi, UsersApi, ChangedApi, EmptyApi, BrokenApi}

Queries == { <<"p","a","y","m","e","n","t"," ","p","r","o","c","e","s","s","i","n","g">>, <<"u","s","e","r","s">>, <<"P","e","t">> }

\* thresholds: 0 and the default 0.1
Thresholds == { <<0, 1>>, <<1, 10>> }

Limits == {0, 1, 2}

\* two ids the inputs produce, and one that is never stored
DocumentIds == { <<"s","1","-","g","e","t","-","/","u","s","e","r","s">>, <<"s","1","-","s","c","h","e","m","a","-","P","e","t">>, <<"d","o","e","s","-","n","o","t","-","e","x","i","s","t">> }

PartialQueries == { <<"p","a","y">>, <<"u","s">> }

-----------------------------------------------------------------------------
(* The SemanticSearch object and its callers *)

index ==
    [documents |-> documents, documentVectors |-> documentVectors,
     idf |-> idf, totalDocs |-> totalDocs]

setIndex(st) ==
    /\ documents' = st.documents
    /\ documentVectors' = st.documentVectors
    /\ idf' = st.idf
    /\ totalDocs' = st.totalDocs

contentOf(docs, id) == docs[CHOOSE i \in 1..Len(docs) : docs[i].id = id].content

\* the module is loaded: indexAllServices() has run up to its setTimeout
Init ==
    /\ indexingInProgress = TRUE
    /\ indexingComplete = FALSE
    /\ indexingProgress = [current |-> 0, total |-> Len(Services)]
    /\ pc = "timer"
    /\ loopIndex = 0
    /\ pending = <<>>
    /\ documents = EmptyIndex.documents
    /\ documentVectors = EmptyIndex.documentVectors
    /\ idf = EmptyIndex.idf
    /\ totalDocs = EmptyIndex.totalDocs
    /\ result = [op |-> "new"]
    /\ calls = 0
    /\ cache = EmptyMap
    /\ cacheTimeout = DefaultCacheTimeout
    /\ now = 0
    /\ inflight = <<>>

IndexSwagger(swagger, service) ==
    /\ calls < MaxCalls
    /\ calls' = calls + 1
    /\ UNCHANGED <<background, fetcher>>
    /\ IF extractThrows(swagger)
       THEN /\ UNCHANGED engine
            /\ result' = [op |-> "indexSwagger", service |-> service.slug, threw |-> TRUE]
       ELSE LET batch == extractDocuments(swagger, service.slug)
            IN /\ setIndex(indexSwagger(index, swagger, service))
               /\ result' = [op |-> "indexSwagger", service |-> service.slug,
                             threw |-> FALSE,
                             batch |-> batch,
                             before |-> idsOf(documents),
                             changed |-> {batch[i].id : i \in
                                            {j \in 1..Len(batch) :
                                                /\ batch[j].id \in idsOf(documents)
                                                /\ contentOf(documents, batch[j].id)
                                                     # batch[j].content}}]

Clear ==
    /\ calls < MaxCalls
    /\ calls' = calls + 1
    /\ setIndex(clear(index))
    /\ result' = [op |-> "clear", held |-> Len(documents)]
    /\ UNCHANGED <<background, fetcher>>

\* a search that keeps the TF vector of its query in the vector store
SearchCaching(query, limit, threshold) ==
    /\ result' = [op |-> "search", query |-> query, limit |-> limit,
                  threshold |-> threshold,
                  value |-> search(index, query, limit, threshold)]
    /\ documentVectors' = vectorSet(documentVectors, query, createTFVector(query))
    /\ UNCHANGED <<documents, idf, totalDocs, background, fetcher, calls>>

Search(query, limit, threshold) ==
    /\ result' = [op |-> "search", query |-> query, limit |-> limit,
                  threshold |-> threshold,
                  value |-> search(index, query, limit, threshold)]
    /\ UNCHANGED <<engine, background, fetcher, calls>>

FindSimilar(documentId, limit) ==
    /\ result' = [op |-> "findSimilar", documentId |-> documentId, limit |-> limit,
                  value |-> findSimilar(index, documentId, limit)]
    /\ UNCHANGED <<engine, background, fetcher, calls>>

GetSuggestions(partialQuery, limit) ==
    /\ result' = [op |-> "getSuggestions", partialQuery |-> partialQuery, limit |-> limit,
                  value |-> getSuggestions(index, partialQuery, limit)]
    /\ UNCHANGED <<engine, background, fetcher, calls>>

GetStats ==
    /\ result' = [op |-> "getStats", value |-> getStats(index)]
    /\ UNCHANGED <<engine, background, fetcher, calls>>

Mutate ==
    \/ \E swagger \in Swaggers, k \in 1..Len(Services) : IndexSwagger(swagger, Services[k])
    \/ Clear

\* a caller that indexes, clears, searches and asks for the statistics
Next ==
    \/ Mutate
    \/ \E query \in Queries, limit \in Limits, threshold \in Thresholds :
          Search(query, limit, threshold)
    \/ GetStats

Spec == Init /\ [][Next]_vars

\* a service with a single endpoint, GET /users
UsersOnlyApi ==
    [paths |-> <<
        [path |-> <<"/","u","s","e","r","s">>,
         item |-> Obj(<< [key |-> <<"g","e","t">>,
                          value |-> [summary |-> <<"L","i","s","t"," ","u","s","e","r","s">>]] >>)] >>]

SimilarSwaggers == {PaymentsApi, UsersApi, UsersOnlyApi}

\* a caller that indexes, clears, asks for similar documents and for suggestions
NextSimilar ==
    \/ \E swagger \in SimilarSwaggers, k \in 1..Len(Services) : IndexSwagger(swagger, Services[k])
    \/ Clear
    \/ \E documentId \in DocumentIds, limit \in Limits : FindSimilar(documentId, limit)
    \/ \E partialQuery \in PartialQueries, limit \in Limits :
          GetSuggestions(partialQuery, limit)

SpecSimilar == Init /\ [][NextSimilar]_vars

\* a service with one endpoint and one schema whose description repeats a word
VerboseApi ==
    [paths |-> <<
        [path |-> <<"/","o","r","d","e","r","s">>,
         item |-> Obj(<< [key |-> <<"g","e","t">>,
                          value |-> [summary |-> <<"L","i","s","t"," ","o","r","d","e","r","s">>]] >>)] >>,
     components |-> [schemas |-> <<
        [name |-> <<"I","n","v","o","i","c","e">>,
         schema |-> [kind |-> "object",
                     description |-> Join([k \in 1..11 |-> <<"i","t","e","m">>], <<" ">>)]] >>]]

SchemaSwaggers == {UsersApi, VerboseApi}

SchemaQueries == { <<"P","e","t">>, <<"I","n","v","o","i","c","e">>, <<"u","s","e","r","s">> }

\* a caller that indexes services of one endpoint and one schema, and searches
NextSchema ==
    \/ \E swagger \in SchemaSwaggers, k \in 1..Len(Services) : IndexSwagger(swagger, Services[k])
    \/ Clear
    \/ \E query \in SchemaQueries, limit \in Limits, threshold \in Thresholds :
          Search(query, limit, threshold)

SpecSchema == Init /\ [][NextSchema]_vars

ReadSwaggers == {UsersApi, PaymentsApi}

\* limits of the reading calls: one that counts from the end, one that cuts
ReadLimits == {-1, 2}

\* a caller that indexes, clears and calls every reading method
NextReads ==
    \/ \E swagger \in ReadSwaggers, k \in 1..Len(Services) : IndexSwagger(swagger, Services[k])
    \/ Clear
    \/ \E query \in Queries, limit \in ReadLimits, threshold \in Thresholds :
          Search(query, limit, threshold)
    \/ \E documentId \in DocumentIds, limit \in ReadLimits : FindSimilar(documentId, limit)
    \/ \E partialQuery \in PartialQueries, limit \in ReadLimits :
          GetSuggestions(partialQuery, limit)
    \/ GetStats

SpecReads == Init /\ [][NextReads]_vars

RankingSwaggers == {PaymentsApi, UsersApi, ChangedApi}

RankingQueries == { <<"l","i","s","t"," ","u","s","e","r","s">> }

\* limits of either sign
AnyLimits == {-1, 0, 1, 3}

\* thresholds: 0, the default 0.1, and 0.5
AnyThresholds == { <<0, 1>>, <<1, 10>>, <<1, 2>> }

\* a caller that indexes, clears and searches with limits and thresholds of
\* every kind
NextRanking ==
    \/ \E swagger \in RankingSwaggers, k \in 1..Len(Services) : IndexSwagger(swagger, Services[k])
    \/ Clear
    \/ \E query \in RankingQueries, limit \in AnyLimits, threshold \in AnyThresholds :
          Search(query, limit, threshold)

SpecRanking == Init /\ [][NextRanking]_vars

\* documents given as they are: two whose content holds no token, three
\* that share tokens, one of them with punctuation and short words
VectorDocuments ==
    << [id |-> <<"b","l","a","n","k">>, content |-> <<>>,
        metadata |-> [service |-> <<"s","1">>, type |-> "description"]],
       [id |-> <<"s","h","o","r","t">>, content |-> <<"a","b"," ","{","i","d","}","!","!">>,
        metadata |-> [service |-> <<"s","1">>, type |-> "description"]],
       [id |-> <<"u","s","e","r","s">>, content |-> <<"G","E","T"," ","/","u","s","e","r","s","/","{","i","d","}","!","!"," ","a","b"," ","a","b","c">>,
        metadata |-> [service |-> <<"s","1">>, type |-> "endpoint"]],
       [id |-> <<"l","i","s","t">>, content |-> <<"l","i","s","t"," ","u","s","e","r","s"," ","u","s","e","r","s"," ","n","o","w">>,
        metadata |-> [service |-> <<"s","2">>, type |-> "endpoint"]],
       [id |-> <<"p","e","t","s">>, content |-> <<"G","E","T"," ","/","p","e","t","s"," ","l","i","s","t"," ","e","v","e","r","y"," ","p","e","t"," ","f","o","u","n","d">>,
        metadata |-> [service |-> <<"s","2">>, type |-> "endpoint"]] >>

\* the lists of one or two of these documents
Batches ==
    {<<VectorDocuments[i]>> : i \in 1..Len(VectorDocuments)}
        \cup {<<VectorDocuments[i], VectorDocuments[j]>> :
                i \in 1..Len(VectorDocuments), j \in 1..Len(VectorDocuments)}

\* queries: two that hold a token, three that hold none
DocumentQueries == { <<"u","s","e","r","s">>, <<"g","e","t"," ","l","i","s","t">>, <<>>, <<"a","b">>, <<"!","!"," ","i","d">> }

\* the loop of indexSwagger on a list of documents
IndexDocuments(batch) ==
    /\ calls < MaxCalls
    /\ calls' = calls + 1
    /\ setIndex(indexDocuments(index, batch))
    /\ result' = [op |-> "indexDocuments", batch |-> batch]
    /\ UNCHANGED <<background, fetcher>>

\* a caller that stores documents of any content, clears and searches
NextDocuments ==
    \/ \E batch \in Batches : IndexDocuments(batch)
    \/ Clear
    \/ \E query \in DocumentQueries, threshold \in Thresholds :
          Search(query, Len(VectorDocuments), threshold)

SpecDocuments == Init /\ [][NextDocuments]_vars

-----------------------------------------------------------------------------
(* index.ts: the background indexing callback and the tool handlers.       *)
(* JavaScript runs a callback to its next await before it runs another;    *)
(* pc names the await the indexing callback is suspended at, and "store"   *)
(* is the inside of indexSwagger, which holds no await.                    *)

\* fetchSwagger resolves to null when the download fails
Null == [kind |-> "null"]

\* every position of the indexing callback, the inside of indexSwagger too
EveryPosition == {"timer", "fetch", "store", "indexed", "pause", "done"}

\* the positions at which the indexing callback has given up control
AwaitPoints == {"timer", "fetch", "indexed", "pause", "done"}

suspended == pc \in AwaitPoints

\* the head of the for loop with i = n, or the code after the loop
enterIteration(n) ==
    /\ loopIndex' = n
    /\ IF n < Len(Services)
       THEN /\ indexingProgress' = [indexingProgress EXCEPT !.current = n + 1]
            /\ pc' = "fetch"
            /\ UNCHANGED <<indexingInProgress, indexingComplete>>
       ELSE /\ indexingInProgress' = FALSE
            /\ indexingComplete' = TRUE
            /\ pc' = "done"
            /\ UNCHANGED indexingProgress

\* the setTimeout(..., 1000) callback starts
TimerFires ==
    /\ pc = "timer"
    /\ enterIteration(0)
    /\ UNCHANGED <<engine, pending, result, calls, fetcher>>

\* a loop that a failed fetch or a failed extraction ends
FetchReturnsOrStops(swagger) ==
    /\ pc = "fetch"
    /\ LET slug == Services[loopIndex + 1].slug
           hit == cacheFresh(cache, slug, now, cacheTimeout)
       IN /\ hit => swagger = cache[slug].document
          /\ cache' = IF ~hit /\ swagger # Null
                       THEN cacheSet(cache, slug, swagger, now)
                       ELSE cache
    /\ IF swagger = Null \/ extractThrows(swagger)
       THEN pc' = "done" /\ pending' = <<>>
       ELSE /\ pending' = extractDocuments(swagger, Services[loopIndex + 1].slug)
            /\ pc' = "store"
    /\ UNCHANGED <<engine, indexingInProgress, indexingComplete, indexingProgress,
                   loopIndex, result, calls, cacheTimeout, now, inflight>>

\* await fetcher.fetchSwagger(service.slug) resumes: with the cached document
\* when the cache holds a fresh one, else with what the request brought, a
\* document, which the cache then keeps, or null; extractDocuments runs
\* first in indexSwagger, and what it throws is caught
FetchReturns(swagger) ==
    /\ pc = "fetch"
    /\ LET slug == Services[loopIndex + 1].slug
           hit == cacheFresh(cache, slug, now, cacheTimeout)
       IN /\ hit => swagger = cache[slug].document
          /\ cache' = IF ~hit /\ swagger # Null
                       THEN cacheSet(cache, slug, swagger, now)
                       ELSE cache
    /\ IF swagger = Null \/ extractThrows(swagger)
       THEN pc' = "pause" /\ pending' = <<>>
       ELSE /\ pending' = extractDocuments(swagger, Services[loopIndex + 1].slug)
            /\ pc' = "store"
    /\ UNCHANGED <<engine, indexingInProgress, indexingComplete, indexingProgress,
                   loopIndex, result, calls, cacheTimeout, now, inflight>>

\* one round of the for loop of indexSwagger
StoreDocument ==
    /\ pc = "store"
    /\ pending # <<>>
    /\ documents' = mapSet(documents, Head(pending))
    /\ documentVectors' = vectorSet(documentVectors, Head(pending).id,
                                    createTFVector(Head(pending).content))
    /\ pending' = Tail(pending)
    /\ UNCHANGED <<idf, totalDocs, indexingInProgress, indexingComplete,
                   indexingProgress, pc, loopIndex, result, calls, fetcher>>

\* the end of indexSwagger: totalDocs and calculateIDF(); the promise resolves
RebuildIDF ==
    /\ pc = "store"
    /\ pending = <<>>
    /\ totalDocs' = Len(documents)
    /\ idf' = calculateIDF(documentVectors, Len(documents), idf)
    /\ pc' = "indexed"
    /\ UNCHANGED <<documents, documentVectors, indexingInProgress, indexingComplete,
                   indexingProgress, loopIndex, pending, result, calls, fetcher>>

\* await semanticSearch.indexSwagger(...) resumes and the 100 ms pause begins
IndexedResumes ==
    /\ pc = "indexed"
    /\ pc' = "pause"
    /\ UNCHANGED <<engine, indexingInProgress, indexingComplete, indexingProgress,
                   loopIndex, pending, result, calls, fetcher>>

\* the pause is over: i++ and the next round, or the end of the callback
PauseDone ==
    /\ pc = "pause"
    /\ enterIteration(loopIndex + 1)
    /\ UNCHANGED <<engine, pending, result, calls, fetcher>>

indexingStatus ==
    IF indexingComplete THEN "complete"
    ELSE IF indexingInProgress THEN "in_progress" ELSE "pending"

\* the properties of a record that are among the fields, as JSON.stringify
\* leaves out the undefined ones
pick(record, fields) == [f \in DOMAIN record \cap fields |-> record[f]]

substring(text, from, to) ==
    SubSeq(text, from + 1, IF to < Len(text) THEN to ELSE Len(text))

\* the default limit of the semantic_search tool, and of search
DefaultLimit == 10

\* the default threshold of search
DefaultThreshold == <<1, 10>>

\* a semantic_search that never gives the notice
SemanticSearchToolQuiet(query, limitArg) ==
    /\ suspended
    /\ LET limit == IF limitArg # 0 THEN limitArg ELSE DefaultLimit
           found == search(index, query, limit, DefaultThreshold)
       IN result' =
            [op |-> "semantic_search", query |-> query, limit |-> limit,
             partial |-> FALSE,
             value |-> [k \in 1..Len(found) |->
                           [preview |-> substring(found[k].content, 0, 200)] @@
                           pick(found[k].metadata,
                                {"service", "type", "path", "method", "operationId"})]]
    /\ UNCHANGED <<engine, background, fetcher, calls>>

\* case "semantic_search"
SemanticSearchTool(query, limitArg) ==
    /\ suspended
    /\ LET limit == IF limitArg # 0 THEN limitArg ELSE DefaultLimit
           found == search(index, query, limit, DefaultThreshold)
       IN result' =
            IF ~indexingComplete /\ indexingInProgress
            THEN [op |-> "semantic_search", query |-> query, limit |-> limit,
                  partial |-> TRUE,
                  progress |-> <<indexingProgress.current, indexingProgress.total>>,
                  value |-> [k \in 1..Len(found) |->
                                pick(found[k].metadata, {"service", "path", "method"})]]
            ELSE [op |-> "semantic_search", query |-> query, limit |-> limit,
                  partial |-> FALSE,
                  value |-> [k \in 1..Len(found) |->
                                [preview |-> substring(found[k].content, 0, 200)] @@
                                pick(found[k].metadata,
                                     {"service", "type", "path", "method", "operationId"})]]
    /\ UNCHANGED <<engine, background, fetcher, calls>>

\* case "search_stats"
SearchStatsTool ==
    /\ suspended
    /\ result' = [op |-> "search_stats", stats |-> getStats(index),
                  indexingStatus |-> indexingStatus,
                  indexingProgress |-> indexingProgress]
    /\ UNCHANGED <<engine, background, fetcher, calls>>

ToolQueries == { <<"u","s","e","r","s">>, <<"p","e","t">> }

\* the limit argument of a tool call; 0 stands for a call without one
ToolLimits == {0, 1}

FetchOutcomes == Swaggers \cup {Null}

NextServer ==
    \/ TimerFires
    \/ \E swagger \in FetchOutcomes : FetchReturns(swagger)
    \/ StoreDocument
    \/ RebuildIDF
    \/ IndexedResumes
    \/ PauseDone
    \/ \E query \in ToolQueries, limitArg \in ToolLimits : SemanticSearchTool(query, limitArg)
    \/ SearchStatsTool

SpecServer == Init /\ [][NextServer]_vars

\* a step of the indexing callback; pc allows one of them at a time
LoopStep ==
    \/ TimerFires
    \/ \E swagger \in FetchOutcomes : FetchReturns(swagger)
    \/ StoreDocument
    \/ RebuildIDF
    \/ IndexedResumes
    \/ PauseDone

\* The event loop runs every callback that is ready: the timers fire, the
\* fetch settles (a document, null or an error), and indexSwagger, which
\* holds no await, runs to its end.
FairServer == WF_vars(LoopStep)

SpecServerFair == Init /\ [][NextServer]_vars /\ FairServer

\* the default limit of the find_similar tool
DefaultSimilarLimit == 5

\* case "find_similar": the id is built with the method in upper case
FindSimilarTool(service, path, method, limitArg) ==
    /\ suspended
    /\ LET limit == IF limitArg # 0 THEN limitArg ELSE DefaultSimilarLimit
           docId == service \o <<"-">> \o toUpperCase(method) \o <<"-">> \o path
           similar == findSimilar(index, docId, limit)
       IN result' = [op |-> "find_similar", service |-> service, path |-> path,
                     method |-> method, limit |-> limit, docId |-> docId,
                     before |-> idsOf(documents),
                     value |-> [k \in 1..Len(similar) |->
                                   [preview |-> substring(similar[k].content, 0, 200)] @@
                                   pick(similar[k].metadata,
                                        {"service", "type", "path", "method", "operationId"})]]
    /\ UNCHANGED <<engine, background, fetcher, calls>>

\* the arguments of find_similar calls: paths and method keys of the
\* specifications, the keys as the specifications spell them
ToolPaths == { <<"/","u","s","e","r","s">>, <<"/","p","e","t","s">> }

ToolMethods == { <<"g","e","t">>, <<"G","E","T">> }

\* the specifications the services of this client return
SimilarOutcomes == {UsersApi, ChangedApi, Null}

\* background indexing and a client that asks for similar endpoints
NextSimilarTool ==
    \/ TimerFires
    \/ \E swagger \in SimilarOutcomes : FetchReturns(swagger)
    \/ StoreDocument
    \/ RebuildIDF
    \/ IndexedResumes
    \/ PauseDone
    \/ \E k \in 1..Len(Services), path \in ToolPaths, method \in ToolMethods,
          limitArg \in ToolLimits :
          FindSimilarTool(Services[k].slug, path, method, limitArg)

SpecSimilarTool == Init /\ [][NextSimilarTool]_vars

-----------------------------------------------------------------------------
(* swagger-fetcher.ts and the get_endpoints tool of index.ts: calls of     *)
(* fetchSwagger, split at the await of the request                         *)

\* a specification as in the tests of the analyzer: two paths, two methods each
AnalyzerApi ==
    [paths |-> <<
        [path |-> <<"/","u","s","e","r","s">>,
         item |-> Obj(<< [key |-> <<"g","e","t">>,
                          value |-> [summary |-> <<"G","e","t"," ","a","l","l"," ","u","s","e","r","s">>,
                                     operationId |-> <<"g","e","t","U","s","e","r","s">>,
                                     tags |-> << <<"u","s","e","r","s">> >>]],
                         [key |-> <<"p","o","s","t">>,
                          value |-> [summary |-> <<"C","r","e","a","t","e"," ","a"," ","u","s","e","r">>,
                                     operationId |-> <<"c","r","e","a","t","e","U","s","e","r">>]] >>)],
        [path |-> <<"/","u","s","e","r","s","/","{","i","d","}">>,
         item |-> Obj(<< [key |-> <<"p","a","r","a","m","e","t","e","r","s">>, value |-> EmptyMap],
                         [key |-> <<"d","e","l","e","t","e">>,
                          value |-> [tags |-> << <<"u","s","e","r","s">>, <<"a","d","m","i","n">> >>]],
                         [key |-> <<"g","e","t">>,
                          value |-> [summary |-> <<"G","e","t"," ","u","s","e","r"," ","b","y"," ","I","D">>]] >>)] >>]

\* what a request can bring: a document, or a failure, which makes null
Responses == {AnalyzerApi, ChangedApi, EmptyApi, BrokenApi, Null}

\* the slugs callers ask for: the configured ones and one that is not
CallSlugs == { Services[k].slug : k \in 1..Len(Services) } \cup { <<"n","o","p","e">> }

\* who calls fetchSwagger: a direct caller, or the get_endpoints tool
Callers == {"fetchSwagger", "get_endpoints"}

\* the arguments of setCacheTimeout: none at all, a quarter of an hour
CacheTimeouts == {0, 15 * 60 * 1000}

\* the clock moves in steps of a quarter of an hour
TickMs == 15 * 60 * 1000

\* the number of steps of the clock in a run
MaxTicks == 2

\* what the caller makes of the outcome of fetchSwagger: the direct caller
\* has the document or null, get_endpoints throws on null and else answers
\* with extractEndpoints(swagger); what it throws becomes an error answer
answer(caller, slug, document, requested) ==
    IF caller = "fetchSwagger"
    THEN [op |-> caller, slug |-> slug, requested |-> requested, threw |-> FALSE,
          document |-> document]
    ELSE IF document = Null \/ extractEndpointsThrows(document)
    THEN [op |-> caller, slug |-> slug, requested |-> requested, threw |-> TRUE,
          document |-> document]
    ELSE [op |-> caller, slug |-> slug, requested |-> requested, threw |-> FALSE,
          document |-> document, value |-> extractEndpoints(document)]

\* fetchSwagger(slug) up to its return or its await: the cached document, an
\* error for a slug that is not configured, or a request
FetchSwagger(caller, slug) ==
    /\ calls < MaxCalls
    /\ calls' = calls + 1
    /\ IF cacheFresh(cache, slug, now, cacheTimeout)
       THEN /\ result' = answer(caller, slug, cache[slug].document, FALSE)
            /\ UNCHANGED inflight
       ELSE IF ~knownSlug(Services, slug)
       THEN /\ result' = [op |-> caller, slug |-> slug, requested |-> FALSE,
                          threw |-> TRUE, document |-> Null]
            /\ UNCHANGED inflight
       ELSE /\ inflight' = Append(inflight, [caller |-> caller, slug |-> slug])
            /\ result' = [op |-> "request", slug |-> slug, caller |-> caller]
    /\ UNCHANGED <<engine, background, cache, cacheTimeout, now>>

\* the request of inflight[k] is over: a document is cached with the time
\* of now and returned, a failure is caught and makes null
ResponseArrives(k, response) ==
    /\ k \in 1..Len(inflight)
    /\ inflight' = SubSeq(inflight, 1, k - 1) \o SubSeq(inflight, k + 1, Len(inflight))
    /\ cache' = IF response # Null
                THEN cacheSet(cache, inflight[k].slug, response, now)
                ELSE cache
    /\ result' = answer(inflight[k].caller, inflight[k].slug, response, TRUE)
    /\ UNCHANGED <<engine, background, cacheTimeout, now, calls>>

ClearCache ==
    /\ cache' = EmptyMap
    /\ result' = [op |-> "clearCache"]
    /\ UNCHANGED <<engine, background, cacheTimeout, now, inflight, calls>>

SetCacheTimeout(timeout) ==
    /\ cacheTimeout' = timeout
    /\ result' = [op |-> "setCacheTimeout", timeout |-> timeout]
    /\ UNCHANGED <<engine, background, cache, now, inflight, calls>>

\* Date.now() has moved on
Tick ==
    /\ now < MaxTicks * TickMs
    /\ now' = now + TickMs
    /\ UNCHANGED <<engine, background, cache, cacheTimeout, inflight, result, calls>>

\* callers of the fetcher, the network and the clock
NextFetcher ==
    \/ \E caller \in Callers, slug \in CallSlugs : FetchSwagger(caller, slug)
    \/ \E k \in 1..MaxCalls, response \in Responses : ResponseArrives(k, response)
    \/ ClearCache
    \/ \E timeout \in CacheTimeouts : SetCacheTimeout(timeout)
    \/ Tick

SpecFetcher == Init /\ [][NextFetcher]_vars

-----------------------------------------------------------------------------
(* Properties *)

PaymentQuery == <<"p","a","y","m","e","n","t"," ","p","r","o","c","e","s","s","i","n","g">>

\* the score search gives a stored document for the query of the last call
scoreOf(id) ==
    cosineSimilarity(createTFIDFVector(result.query, idf, totalDocs),
                     getTFIDFVector(id, documentVectors, idf, totalDocs))

returnedIds == {result.value[k].id : k \in 1..Len(result.value)}

qualifying == {id \in idsOf(documents) : ScoreAtLeast(scoreOf(id), result.threshold)}

\* C1: when the index holds only the one document of the payments service,
\* search("payment processing", limit, 0.1) with a limit of at least 1
\* returns exactly that document.
C1_SingleDocumentFound ==
    ( /\ result.op = "search"
      /\ result.query = PaymentQuery
      /\ result.threshold = <<1, 10>>
      /\ result.limit >= 1
      /\ documents = extractDocuments(PaymentsApi, Services[1].slug) )
    => result.value = documents

\* C2: search returns stored documents, each once, all with a score of at
\* least the threshold, at most limit of them and as many as qualify up to
\* limit, in descending order of score, and no document left out scores
\* higher than one returned.
C2_SearchTopLimit ==
    result.op = "search" =>
        /\ \A k \in 1..Len(result.value) : result.value[k] \in Range(documents)
        /\ Cardinality(returnedIds) = Len(result.value)
        /\ returnedIds \subseteq qualifying
        /\ Len(result.value) = IF Cardinality(qualifying) < result.limit
                               THEN Cardinality(qualifying) ELSE result.limit
        /\ \A k \in 1..(Len(result.value) - 1) :
              ScoreLeq(scoreOf(result.value[k + 1].id), scoreOf(result.value[k].id))
        /\ \A id \in qualifying \ returnedIds : \A k \in 1..Len(result.value) :
              ScoreLeq(scoreOf(id), scoreOf(result.value[k].id))

\* a search with the default threshold that filled its limit, left out a
\* qualifying document of a lower score, and saw a document below the threshold
C2_Witness ==
    /\ result.op = "search"
    /\ result.threshold = <<1, 10>>
    /\ result.limit >= 1
    /\ Len(result.value) = result.limit
    /\ \E id \in qualifying \ returnedIds :
          ScoreLess(scoreOf(id), scoreOf(result.value[Len(result.value)].id))
    /\ idsOf(documents) \ qualifying # {}

\* C3: after every indexSwagger the IDF table has an entry for exactly the
\* tokens of the stored TF vectors, each ln(totalDocs / df), and the
\* totalTerms of getStats is the number of distinct tokens.
C3_IdfMatchesVocabulary ==
    (result.op = "indexSwagger" /\ ~result.threw) =>
        /\ DOMAIN idf = vocabulary(documentVectors)
        /\ \A token \in vocabulary(documentVectors) :
              idf[token] = MathLog(totalDocs, documentFrequency(documentVectors, token))
        /\ getStats(index).totalTerms = Cardinality(vocabulary(documentVectors))

\* C4: totalDocs, which getStats reports as totalDocuments, is the number
\* of entries of the document store after any sequence of indexSwagger and
\* clear calls.
C4_TotalDocsIsStoreSize ==
    /\ totalDocs = Len(documents)
    /\ getStats(index).totalDocuments = Len(documents)
    /\ result.op = "getStats" => result.value.totalDocuments = Len(documents)

\* a second indexSwagger stored a batch that overlaps what was stored
C4_Witness ==
    /\ result.op = "indexSwagger"
    /\ ~result.threw
    /\ idsOf(result.batch) \cap result.before # {}
    /\ idsOf(result.batch) \ result.before # {}
    /\ totalDocs = Cardinality(idsOf(result.batch) \cup result.before)

\* the TF-IDF vector getTFIDFVector gives a stored document
weightsOf(id) == getTFIDFVector(id, documentVectors, idf, totalDocs)

\* C6: the TF-IDF weight of a token that has an IDF entry is TF times that
\* entry, also when the entry is 0; ln(totalDocs) stands in only for a
\* token without an entry.
C6_WeightIsTfTimesIdf ==
    \A id \in DOMAIN documentVectors : \A token \in DOMAIN documentVectors[id] :
        REq(weightsOf(id)[token],
            RMul(documentVectors[id][token],
                 IF token \in DOMAIN idf THEN idf[token] ELSE MathLog(totalDocs, 1)))

\* C7: the cosine similarity of the TF-IDF vector of an indexed document
\* with at least one token to itself is 1, whatever the size of the corpus.
C7_SelfSimilarityIsOne ==
    \A id \in DOMAIN documentVectors :
        DOMAIN documentVectors[id] # {} =>
            cosineSimilarity(weightsOf(id), weightsOf(id)) = ScoreIsOne

\* the documents of the services other than the one named
documentsOfOthers(docs, slug) == SelectSeq(docs, LAMBDA doc : doc.metadata.service # slug)

storedDocument(id) == documents[CHOOSE k \in 1..Len(documents) : documents[k].id = id]

\* C9: ids are unique in the document store, every stored TF vector is the
\* one computed from the current content of its document, and after an
\* indexSwagger every id of the batch holds the content and metadata the
\* batch gave it last, without a second entry.
C9_ReindexReplaces ==
    /\ Cardinality(idsOf(documents)) = Len(documents)
    /\ DOMAIN documentVectors = idsOf(documents)
    /\ \A k \in 1..Len(documents) :
          documentVectors[documents[k].id] = createTFVector(documents[k].content)
    /\ (result.op = "indexSwagger" /\ ~result.threw) =>
          /\ Len(documents) = Cardinality(result.before \cup idsOf(result.batch))
          /\ \A k \in 1..Len(result.batch) :
                (\A j \in (k + 1)..Len(result.batch) : result.batch[j].id # result.batch[k].id)
                    => storedDocument(result.batch[k].id) = result.batch[k]

\* an indexSwagger gave a stored id a different content
C9_Witness ==
    /\ result.op = "indexSwagger"
    /\ ~result.threw
    /\ result.changed # {}
    /\ \E k \in 1..Len(result.batch) :
          /\ result.batch[k].id \in result.changed
          /\ storedDocument(result.batch[k].id).content = result.batch[k].content

\* C10: after any indexSwagger every token of every stored TF vector has an
\* IDF entry ln(totalDocs / df) with 1 <= df <= totalDocs, so no entry of a
\* stored token is negative.
C10_IdfNonNegative ==
    (result.op = "indexSwagger" /\ ~result.threw) =>
        \A token \in vocabulary(documentVectors) :
            /\ token \in DOMAIN idf
            /\ 1 <= documentFrequency(documentVectors, token)
            /\ documentFrequency(documentVectors, token) <= totalDocs
            /\ idf[token] = MathLog(totalDocs, documentFrequency(documentVectors, token))
            /\ idf[token][1] >= 0

\* an indexSwagger left a token that every document holds and one that
\* only some hold, in a corpus of several documents
C10_Witness ==
    /\ result.op = "indexSwagger"
    /\ ~result.threw
    /\ totalDocs > 1
    /\ \E token \in vocabulary(documentVectors) :
          documentFrequency(documentVectors, token) = totalDocs /\ idf[token] = Zero
    /\ \E token \in vocabulary(documentVectors) :
          documentFrequency(documentVectors, token) < totalDocs /\ idf[token][1] > 0

\* a whole number of batches is applied: the count, the TF vectors and the
\* IDF entries of the stored tokens all belong to the stored documents
batchesApplied ==
    /\ pending = <<>>
    /\ totalDocs = Len(documents)
    /\ DOMAIN documentVectors = idsOf(documents)
    /\ \A k \in 1..Len(documents) :
          documentVectors[documents[k].id] = createTFVector(documents[k].content)
    /\ \A token \in vocabulary(documentVectors) :
          /\ token \in DOMAIN idf
          /\ idf[token] = MathLog(totalDocs, documentFrequency(documentVectors, token))

\* C5: a tool handler runs only while the indexing callback is suspended,
\* and whenever it is suspended every batch is applied in full or not at
\* all: the documents of a batch are never visible without the IDF rebuilt.
C5_NoHalfAppliedBatch ==
    /\ [](suspended => batchesApplied)
    /\ [][result' # result => (suspended /\ batchesApplied /\ UNCHANGED engine)]_vars

\* a semantic_search that ran between the second batch and the pause after
\* it, and returned a document of that batch in its partial results
C5_Witness ==
    /\ pc = "indexed"
    /\ loopIndex = 1
    /\ result.op = "semantic_search"
    /\ result.partial
    /\ result.progress = <<2, 2>>
    /\ \E k \in 1..Len(result.value) : result.value[k].service = Services[2].slug
    /\ \E k \in 1..Len(documents) : documents[k].metadata.service = Services[1].slug

\* the cosine similarity of the TF-IDF vectors of two stored documents
similarity(a, b) == cosineSimilarity(weightsOf(a), weightsOf(b))

\* the ids findSimilar may return for the reference of the last call
candidates == idsOf(documents) \ {result.documentId}

\* C11: for a stored documentId and a limit >= 0, findSimilar returns
\* stored documents other than the reference, each once, exactly
\* min(limit, totalDocuments - 1) of them whatever their score, in
\* descending order of similarity to the reference, and none left out is
\* more similar than one returned.
C11_FindSimilarRanksOthers ==
    (result.op = "findSimilar" /\ result.documentId \in idsOf(documents)) =>
        /\ \A k \in 1..Len(result.value) :
              result.value[k] \in Range(documents) /\ result.value[k].id # result.documentId
        /\ Cardinality(returnedIds) = Len(result.value)
        /\ Len(result.value) =
              IF result.limit < getStats(index).totalDocuments - 1
              THEN result.limit ELSE getStats(index).totalDocuments - 1
        /\ \A k \in 1..(Len(result.value) - 1) :
              ScoreLeq(similarity(result.documentId, result.value[k + 1].id),
                       similarity(result.documentId, result.value[k].id))
        /\ \A id \in candidates \ returnedIds : \A k \in 1..Len(result.value) :
              ScoreLeq(similarity(result.documentId, id),
                       similarity(result.documentId, result.value[k].id))

\* a findSimilar that filled a limit of 2 out of more candidates, the first
\* more similar than the second and the second of similarity 0
C11_Witness ==
    /\ result.op = "findSimilar"
    /\ result.documentId \in idsOf(documents)
    /\ result.limit = 2
    /\ Len(result.value) = 2
    /\ Cardinality(candidates) > 2
    /\ ScoreLess(similarity(result.documentId, result.value[2].id),
                 similarity(result.documentId, result.value[1].id))
    /\ similarity(result.documentId, result.value[2].id) = ScoreZero

\* C12: in every index state findSimilar with a documentId that is not
\* stored returns the empty sequence and changes nothing of the index.
C12_UnknownIdIsEmpty ==
    /\ [](result.op = "findSimilar" /\ result.documentId \notin idsOf(documents)
            => result.value = <<>>)
    /\ [][result'.op = "findSimilar" /\ result'.documentId \notin idsOf(documents)
            => UNCHANGED engine]_vars

\* a findSimilar for an id that is not stored, on an index that holds documents
C12_Witness ==
    /\ result.op = "findSimilar"
    /\ result.documentId \notin idsOf(documents)
    /\ Len(documents) >= 2
    /\ result.value = <<>>

\* the index holds two endpoint documents and nothing else, of different
\* services and of identical content
twinEndpoints ==
    /\ Len(documents) = 2
    /\ documents[1].metadata.type = "endpoint"
    /\ documents[2].metadata.type = "endpoint"
    /\ documents[1].metadata.service # documents[2].metadata.service
    /\ documents[1].content = documents[2].content

\* C13: when the index holds the endpoints of two services with identical
\* content and nothing else, the cosine similarity of their TF-IDF vectors
\* is 1, and findSimilar on one of them with a limit of at least 1 returns
\* exactly the other.
C13_TwinEndpointsAreSimilar ==
    twinEndpoints =>
        /\ similarity(documents[1].id, documents[2].id) = ScoreIsOne
        /\ (result.op = "findSimilar" /\ result.limit >= 1
              /\ result.documentId \in idsOf(documents))
           => \E k \in 1..2 : /\ documents[k].id # result.documentId
                              /\ result.value = <<documents[k]>>

\* findSimilar on GET /users of the first service returned GET /users of the
\* second, the two of identical content
C13_Witness ==
    /\ twinEndpoints
    /\ documents = extractDocuments(UsersOnlyApi, Services[1].slug)
                      \o extractDocuments(UsersOnlyApi, Services[2].slug)
    /\ result.op = "findSimilar"
    /\ result.documentId = documents[1].id
    /\ result.value = <<documents[2]>>
    /\ documents[2].metadata.path = <<"/","u","s","e","r","s">>
    /\ documents[2].metadata.method = <<"G","E","T">>

\* the positions of the endpoint and of the schema document when the index
\* holds just one of each, of one service and with no token in common
endpointSchemaPairs ==
    {p \in (1..Len(documents)) \X (1..Len(documents)) :
        /\ Len(documents) = 2
        /\ documents[p[1]].metadata.type = "endpoint"
        /\ documents[p[2]].metadata.type = "schema"
        /\ documents[p[1]].metadata.service = documents[p[2]].metadata.service
        /\ DOMAIN documentVectors[documents[p[1]].id]
              \cap DOMAIN documentVectors[documents[p[2]].id] = {}}

\* the last call was a search with the default threshold and room for one
\* result, and every token of its query occurs in the schema document
schemaQuery(p) ==
    /\ result.op = "search"
    /\ result.threshold = DefaultThreshold
    /\ result.limit >= 1
    /\ tokenize(result.query) # <<>>
    /\ Range(tokenize(result.query)) \subseteq DOMAIN documentVectors[documents[p[2]].id]

\* C14 as stated: such a search returns the schema document and nothing else.
C14_SchemaQueryFindsSchema ==
    \A p \in endpointSchemaPairs : schemaQuery(p) => result.value = <<documents[p[2]]>>

\* C14 amended: such a search never returns the endpoint document, and it
\* returns the schema document exactly when the similarity of the query to
\* the schema document is at least the threshold 0.1.
C14_SchemaQueryNeverEndpoint ==
    \A p \in endpointSchemaPairs : schemaQuery(p) =>
        /\ \A k \in 1..Len(result.value) : result.value[k] # documents[p[1]]
        /\ result.value = IF ScoreAtLeast(scoreOf(documents[p[2]].id), DefaultThreshold)
                          THEN <<documents[p[2]]>> ELSE <<>>

\* a search for the name of the schema returned the schema document alone
C14_Witness ==
    \E p \in endpointSchemaPairs :
        /\ schemaQuery(p)
        /\ result.value = <<documents[p[2]]>>
        /\ scoreOf(documents[p[1]].id) = ScoreZero

\* C15: clear() leaves the document store, the TF vectors and the IDF table
\* empty and the count 0, and on such an index every search returns the
\* empty sequence and getStats reports 0 documents, 0 terms, no services,
\* 0 endpoints and 0 schemas.
C15_ClearEmptiesEverything ==
    /\ result.op = "clear" => index = EmptyIndex
    /\ (index = EmptyIndex /\ result.op = "search") => result.value = <<>>
    /\ (index = EmptyIndex /\ result.op = "getStats") =>
          result.value = [totalDocuments |-> 0, totalTerms |-> 0, services |-> <<>>,
                          endpoints |-> 0, schemas |-> 0]
    /\ index = EmptyIndex => /\ search(index, PaymentQuery, 2, Zero) = <<>>
                             /\ getStats(index).totalDocuments = 0

\* a clear of an index that held documents
C15_Witness ==
    /\ result.op = "clear"
    /\ result.held > 0
    /\ index = EmptyIndex
    /\ search(index, PaymentQuery, 2, Zero) = <<>>

\* C16 as stated: with threshold 0 a search returns at most limit documents,
\* for every value of limit.
C16_AtMostLimit ==
    (result.op = "search" /\ result.threshold = Zero) => Len(result.value) <= result.limit

\* C16 amended: a search returns at most limit documents for every limit
\* >= 0 (the qualifying ones when they are fewer), and for a limit -k it
\* returns the qualifying documents but the last k of them.
C16_AtMostNonNegativeLimit ==
    result.op = "search" =>
        /\ result.limit >= 0 =>
              Len(result.value) = IF Cardinality(qualifying) < result.limit
                                  THEN Cardinality(qualifying) ELSE result.limit
        /\ result.limit < 0 =>
              Len(result.value) = IF Cardinality(qualifying) + result.limit > 0
                                  THEN Cardinality(qualifying) + result.limit ELSE 0

\* a search with threshold 0 and limit 1 on an index of more than two
\* documents, cut down to one document
C16_Witness ==
    /\ result.op = "search"
    /\ result.threshold = Zero
    /\ result.limit = 1
    /\ Len(documents) > 2
    /\ Cardinality(qualifying) = Len(documents)
    /\ Len(result.value) = 1

\* the number of documents the search of the last call returns with
\* another threshold
countWith(threshold) == Len(search(index, result.query, result.limit, threshold))

\* C17: on one index state, for one query and one limit, a search with a
\* higher threshold returns no more documents than one with a lower.
C17_ThresholdMonotone ==
    result.op = "search" =>
        \A t \in AnyThresholds :
            /\ RLeq(t, result.threshold) => Len(result.value) <= countWith(t)
            /\ RLeq(result.threshold, t) => countWith(t) <= Len(result.value)

\* a search with the default threshold returned fewer documents than the
\* same search with threshold 0 and more than with threshold 0.5
C17_Witness ==
    /\ result.op = "search"
    /\ result.threshold = DefaultThreshold
    /\ Len(result.value) < countWith(Zero)
    /\ countWith(<<1, 2>>) < Len(result.value)

\* the position of a stored document in the order of insertion
positionOf(id) == CHOOSE k \in 1..Len(documents) : documents[k].id = id

sameScore(a, b) == ScoreLeq(scoreOf(a), scoreOf(b)) /\ ScoreLeq(scoreOf(b), scoreOf(a))

\* C18: on one index state a second search with the arguments of the first
\* returns the same documents in the same order, and returned documents of
\* equal score stand in the order in which their ids were first inserted.
C18_DeterministicTieOrder ==
    result.op = "search" =>
        /\ search(index, result.query, result.limit, result.threshold) = result.value
        /\ \A j \in 1..Len(result.value) : \A k \in (j + 1)..Len(result.value) :
              sameScore(result.value[j].id, result.value[k].id)
                 => positionOf(result.value[j].id) < positionOf(result.value[k].id)
        /\ \A id \in qualifying \ returnedIds : \A k \in 1..Len(result.value) :
              sameScore(id, result.value[k].id)
                 => positionOf(result.value[k].id) < positionOf(id)

\* a search that moved a document ahead of one inserted earlier and returned
\* two documents of one score, a third of that score cut off or following
C18_Witness ==
    /\ result.op = "search"
    /\ Len(result.value) >= 2
    /\ \E j \in 1..Len(result.value) : \E k \in (j + 1)..Len(result.value) :
          /\ sameScore(result.value[j].id, result.value[k].id)
          /\ scoreOf(result.value[j].id) # ScoreZero
    /\ \E j \in 1..Len(result.value) : \E k \in (j + 1)..Len(result.value) :
          positionOf(result.value[k].id) < positionOf(result.value[j].id)

ReadingMethods == {"search", "findSimilar", "getStats", "getSuggestions"}

\* C19: a step of search, findSimilar, getStats or getSuggestions leaves
\* the document store, the TF vectors, the IDF table and the count of
\* documents as they were, whatever the arguments and the result.
C19_ReadsChangeNothing ==
    [][result'.op \in ReadingMethods =>
          /\ documents' = documents
          /\ documentVectors' = documentVectors
          /\ idf' = idf
          /\ totalDocs' = totalDocs]_vars

\* a reading method returned something on an index of several documents
\* that holds IDF entries
C19_Witness ==
    /\ result.op \in ReadingMethods
    /\ result.op = "getSuggestions"
    /\ result.value # <<>>
    /\ Len(documents) > 2
    /\ DOMAIN idf # {}

\* C20: indexing a specification without paths and without a schema
\* container extracts no document, raises no error, and leaves the
\* document store, the TF vectors, the IDF table and the count as they were.
C20_EmptySpecificationIsNoOp ==
    /\ [](/\ ~Has(EmptyApi, "paths") /\ ~schemasOf(EmptyApi)[1]
          /\ \A k \in 1..Len(Services) : extractDocuments(EmptyApi, Services[k].slug) = <<>>)
    /\ [][\A k \in 1..Len(Services) :
             ( /\ result'.op = "indexSwagger"
               /\ result'.service = Services[k].slug
               /\ (result'.threw \/ result'.batch = <<>>)
               /\ IndexSwagger(EmptyApi, Services[k]) ) =>
                /\ ~result'.threw
                /\ result'.batch = <<>>
                /\ documents' = documents
                /\ documentVectors' = documentVectors
                /\ idf' = idf
                /\ totalDocs' = totalDocs]_vars

\* an indexSwagger that extracted nothing and did not throw, on an index
\* that holds documents and IDF entries
C20_Witness ==
    /\ result.op = "indexSwagger"
    /\ ~result.threw
    /\ result.batch = <<>>
    /\ result.before # {}
    /\ Len(documents) > 1
    /\ DOMAIN idf # {}

\* the stored documents whose content holds no token
tokenless == {i \in 1..Len(documents) : tokenize(documents[i].content) = <<>>}

\* the score of a query against a stored document
queryScore(query, id) ==
    cosineSimilarity(createTFIDFVector(query, idf, totalDocs),
                     getTFIDFVector(id, documentVectors, idf, totalDocs))

\* C21: a document whose content holds no token is stored with an empty TF
\* vector, counts toward totalDocuments, adds nothing to any document
\* frequency and scores 0 against every query; a query that holds no token
\* scores 0 against every document; indexing and search both complete.
C21_TokenlessScoresZero ==
    /\ \A i \in tokenless :
          /\ documents[i].id \in DOMAIN documentVectors
          /\ documentVectors[documents[i].id] = EmptyMap
          /\ \A query \in DocumentQueries : queryScore(query, documents[i].id) = ScoreZero
    /\ totalDocs = Len(documents)
    /\ \A token \in vocabulary(documentVectors) :
          /\ documentFrequency(documentVectors, token)
               = Cardinality({i \in 1..Len(documents) \ tokenless :
                                 token \in Range(tokenize(documents[i].content))})
          /\ idf[token] = MathLog(totalDocs, documentFrequency(documentVectors, token))
    /\ \A query \in DocumentQueries :
          tokenize(query) = <<>> =>
             \A i \in 1..Len(documents) : queryScore(query, documents[i].id) = ScoreZero
    /\ result.op = "indexDocuments" =>
          \A k \in 1..Len(result.batch) : result.batch[k].id \in idsOf(documents)
    /\ (result.op = "search" /\ tokenize(result.query) = <<>>) =>
          result.value = (IF ScoreAtLeast(ScoreZero, result.threshold)
                          THEN documents ELSE <<>>)
    /\ (result.op = "search" /\ ~ScoreAtLeast(ScoreZero, result.threshold)) =>
          \A k \in 1..Len(result.value) : tokenize(result.value[k].content) # <<>>

\* a search with a query of no token that returned every document at
\* threshold 0, on an index that holds a document of no token next to
\* documents that score above 0 against other queries
C21_Witness ==
    /\ result.op = "search"
    /\ tokenize(result.query) = <<>>
    /\ result.value # <<>>
    /\ tokenless # {}
    /\ totalDocs > Cardinality(tokenless) + 1
    /\ \E query \in DocumentQueries, i \in 1..Len(documents) :
          queryScore(query, documents[i].id) # ScoreZero

\* the stored documents of a type
storedOfType(type) == {id \in idsOf(documents) : storedDocument(id).metadata.type = type}

\* C22: after any sequence of indexSwagger and clear calls, getStats()
\* returns as services exactly the distinct service ids of the stored
\* documents, each once, as endpoints the number of stored endpoint
\* documents, as schemas the number of stored schema documents, and
\* endpoints + schemas = totalDocuments.
C22_StatsMatchStore ==
    result.op = "getStats" =>
       /\ Range(result.value.services)
            = {storedDocument(id).metadata.service : id \in idsOf(documents)}
       /\ \A i, j \in 1..Len(result.value.services) :
             result.value.services[i] = result.value.services[j] => i = j
       /\ result.value.endpoints = Cardinality(storedOfType("endpoint"))
       /\ result.value.schemas = Cardinality(storedOfType("schema"))
       /\ result.value.endpoints + result.value.schemas = result.value.totalDocuments
       /\ result.value.totalDocuments = Cardinality(idsOf(documents))

\* statistics of an index that holds endpoints and schemas of two services,
\* more documents than services
C22_Witness ==
    /\ result.op = "getStats"
    /\ Len(result.value.services) = 2
    /\ result.value.endpoints > 1
    /\ result.value.schemas > 0
    /\ result.value.totalDocuments > 2

TokenizerExample == <<"G","E","T"," ","/","u","s","e","r","s","/","{","i","d","}","!","!"," ","a","b"," ","a","b","c">>

\* the stored documents whose content is the example text
exampleDocuments == {i \in 1..Len(documents) : documents[i].content = TokenizerExample}

\* C23: tokenizing "GET /users/{id}!! ab abc" yields the tokens "get",
\* "users", "abc" in this order ("id" and "ab" have two characters and are
\* dropped), and a document of this content is stored with these tokens.
C23_TokenizerExample ==
    /\ tokenize(TokenizerExample) = << <<"g","e","t">>, <<"u","s","e","r","s">>, <<"a","b","c">> >>
    /\ \A i \in exampleDocuments :
          DOMAIN documentVectors[documents[i].id] = { <<"g","e","t">>, <<"u","s","e","r","s">>, <<"a","b","c">> }

\* C23 as stated: the tokens are "get", "users", "id", "abc"
C23_TokenizerExampleWithId ==
    \A i \in exampleDocuments :
       /\ tokenize(documents[i].content) = << <<"g","e","t">>, <<"u","s","e","r","s">>, <<"i","d">>, <<"a","b","c">> >>
       /\ DOMAIN documentVectors[documents[i].id] = { <<"g","e","t">>, <<"u","s","e","r","s">>, <<"i","d">>, <<"a","b","c">> }

\* a document of the example text is stored with its TF vector
C23_Witness ==
    /\ exampleDocuments # {}
    /\ \A i \in exampleDocuments : documents[i].id \in DOMAIN documentVectors
    /\ result.op = "indexDocuments"

\* the (path, key) pairs of a document whose key is an HTTP method in lower
\* case, as positions <<i, j>> in path order and then key order
methodPairs(doc) ==
    LET width == 1 + Cardinality(UNION {1..Len(doc.paths[i].item.entries) :
                                           i \in 1..Len(doc.paths)})
        codes == UNION {{i * width + j :
                           j \in {j \in 1..Len(doc.paths[i].item.entries) :
                                    doc.paths[i].item.entries[j].key \in
                                       { <<"g","e","t">>, <<"p","o","s","t">>, <<"p","u","t">>,
                                         <<"d","e","l","e","t","e">>, <<"p","a","t","c","h">>,
                                         <<"o","p","t","i","o","n","s">>, <<"h","e","a","d">> }}}
                        : i \in 1..Len(doc.paths)}
        order == Ascending(codes)
    IN [k \in 1..Len(order) |-> <<order[k] \div width, order[k] % width>>]

\* C24: extractEndpoints returns, in path order and then key order, exactly
\* one entry per (path, key) pair whose key is one of get, post, put,
\* delete, patch, options, head, with the method in upper case and summary,
\* operationId and tags as the operation has them; other keys give no
\* entry, and a document without paths gives the empty list. (A path item
\* that is null, which is no mapping, makes the call raise.)
C24_ExtractEndpointsExact ==
    result.op = "get_endpoints" /\ result.document # Null =>
       LET doc == result.document
       IN /\ result.threw <=> (Has(doc, "paths") /\
                                 \E i \in 1..Len(doc.paths) : doc.paths[i].item.kind = "null")
          /\ (~result.threw /\ ~Has(doc, "paths")) => result.value = <<>>
          /\ (~result.threw /\ Has(doc, "paths")) =>
                LET pairs == methodPairs(doc)
                IN /\ Len(result.value) = Len(pairs)
                   /\ \A k \in 1..Len(pairs) :
                         LET entry == result.value[k]
                             path == doc.paths[pairs[k][1]]
                             key == path.item.entries[pairs[k][2]].key
                             operation == path.item.entries[pairs[k][2]].value
                         IN /\ entry.path = path.path
                            /\ entry.method = toUpperCase(key)
                            /\ DOMAIN entry = {"path", "method"} \cup
                                  (DOMAIN operation \cap {"summary", "operationId", "tags"})
                            /\ \A f \in DOMAIN entry \ {"path", "method"} :
                                  entry[f] = operation[f]

\* get_endpoints answered with the four endpoints of a document that has
\* two paths, a key that is no method, and operations with and without
\* summary, operationId and tags
C24_Witness ==
    /\ result.op = "get_endpoints"
    /\ ~result.threw
    /\ result.document = AnalyzerApi
    /\ Len(result.value) = 4
    /\ result.value[1].method = <<"G","E","T">>
    /\ result.value[3].method = <<"D","E","L","E","T","E">>
    /\ "summary" \notin DOMAIN result.value[3]

\* the step is a call of fetchSwagger(slug), up to its return or its await
fetchCalled(slug) == calls' = calls + 1 /\ result'.slug = slug

\* the cache holds an entry for the slug that is younger than cacheTimeout
youngEntry(slug) ==
    /\ slug \in DOMAIN cache
    /\ now - cache[slug].timestamp < cacheTimeout

\* the call was answered with the cached document, and no request was made
answeredFromCache(slug) ==
    /\ slug \in DOMAIN cache
    /\ result'.op \in Callers
    /\ ~result'.requested
    /\ result'.document = cache[slug].document
    /\ inflight' = inflight

requestIssued(slug) ==
    /\ result'.op = "request"
    /\ inflight' = Append(inflight, [caller |-> result'.caller, slug |-> slug])

\* the cache entries of the next state that the step wrote
written == {slug \in DOMAIN cache' : slug \notin DOMAIN cache \/ cache'[slug] # cache[slug]}

\* C25: fetchSwagger(slug) answers from the cache without a request exactly
\* when the cache holds an entry for slug younger than cacheTimeout; an
\* entry is written only by a fetch that succeeded; a fetch that failed
\* returns null and leaves the cache as it was; clearCache() empties the
\* cache, and a call for a configured slug that comes next issues a
\* request, while a slug that is not configured raises an error without one.
C25_CacheAnswersWhenYoung ==
    [][ /\ \A slug \in CallSlugs :
              fetchCalled(slug) =>
                 /\ answeredFromCache(slug) <=> youngEntry(slug)
                 /\ (~youngEntry(slug) /\ knownSlug(Services, slug)) => requestIssued(slug)
                 /\ (~youngEntry(slug) /\ ~knownSlug(Services, slug)) =>
                       result'.threw /\ inflight' = inflight
                 /\ cache' = cache
        /\ \A slug \in written :
              /\ result'.op \in Callers
              /\ result'.requested
              /\ result'.slug = slug
              /\ result'.document # Null
              /\ cache'[slug] = [document |-> result'.document, timestamp |-> now]
              /\ Len(inflight') = Len(inflight) - 1
        /\ (Len(inflight') < Len(inflight) /\ result'.document = Null) =>
              /\ cache' = cache
              /\ result'.op = "fetchSwagger" => ~result'.threw
        /\ result'.op = "clearCache" => cache' = EmptyMap
        /\ \A slug \in CallSlugs :
              (result.op = "clearCache" /\ fetchCalled(slug) /\ knownSlug(Services, slug))
                 => requestIssued(slug)
      ]_vars

\* C25 as stated, its last part: the call that comes next after clearCache()
\* issues a request, for any slug
C25_AnySlugIssuesRequest ==
    [][ \A slug \in CallSlugs :
           (result.op = "clearCache" /\ fetchCalled(slug)) => requestIssued(slug) ]_vars

\* a call answered from the cache some time after the entry was written
C25_Witness ==
    /\ result.op \in Callers
    /\ ~result.requested
    /\ ~result.threw
    /\ result.slug \in DOMAIN cache
    /\ now > cache[result.slug].timestamp
    /\ now - cache[result.slug].timestamp < cacheTimeout

\* the id the extractor gives the endpoint of a service, a path and a
\* method key
extractorId(service, path, method) == service \o <<"-">> \o method \o <<"-">> \o path

\* C26: for every stored endpoint document of service s, path p and method
\* key m as the specification spells it, find_similar(s, p, m) looks up the
\* id the extractor gave that endpoint, and returns a non-empty list
\* whenever another document is indexed.
C26_FindSimilarToolFindsEndpoint ==
    (/\ result.op = "find_similar"
     /\ extractorId(result.service, result.path, result.method) \in result.before)
    => /\ result.docId = extractorId(result.service, result.path, result.method)
       /\ Cardinality(result.before) > 1 => result.value # <<>>

\* C27: when every fetch settles, the indexing loop attempts each
\* configured service exactly once, one after the other in the order of
\* the configuration; a fetch that fails, or an indexing that fails, leaves
\* the index as it was and does not stop the loop, every later service is
\* attempted, and the status eventually becomes complete and stays complete.
C27_LoopAttemptsAllAndCompletes ==
    /\ [][ /\ (pc' = "fetch" /\ pc # "fetch") =>
                /\ pc \in {"timer", "pause"}
                /\ loopIndex' = (IF pc = "timer" THEN 0 ELSE loopIndex + 1)
                /\ loopIndex' < Len(Services)
                /\ indexingProgress'.current = loopIndex' + 1
           /\ loopIndex' # loopIndex => (pc = "pause" /\ loopIndex' = loopIndex + 1)
           /\ (pc = "fetch" /\ pc' # "fetch") =>
                /\ loopIndex' = loopIndex
                /\ pc' = "pause" => UNCHANGED engine
                /\ pc' \in {"pause", "store"}
           /\ indexingComplete => indexingComplete' /\ indexingStatus' = "complete"
           /\ indexingComplete' => loopIndex' = Len(Services)
         ]_vars
    /\ \A k \in 1..Len(Services) : <>(pc = "fetch" /\ loopIndex = k - 1)
    /\ <>[](indexingStatus = "complete")

\* indexing is complete although the fetch of the first service failed:
\* the documents of a later service are indexed
C27_Witness ==
    /\ indexingStatus = "complete"
    /\ pc = "done"
    /\ Services[1].slug \notin DOMAIN cache
    /\ Len(documents) > 0
    /\ \A i \in 1..Len(documents) : documents[i].metadata.service = Services[2].slug

\* the number of services whose fetch the indexing loop has started
attempted ==
    IF pc = "timer" THEN 0
    ELSE IF loopIndex < Len(Services) THEN loopIndex + 1 ELSE Len(Services)

\* the step is a semantic_search call
searchAnswered == result' # result /\ result'.op = "semantic_search"

\* C28: while background indexing has not yet attempted every configured
\* service, a semantic_search call answers with the notice "Indexing in
\* progress (current/total)", where 0 <= current <= total; current never
\* decreases; once indexing has finished, the answer carries no notice.
C28_NoticeWhileIndexing ==
    /\ [](/\ 0 <= indexingProgress.current
          /\ indexingProgress.current <= indexingProgress.total
          /\ indexingProgress.total = Len(Services)
          /\ indexingProgress.current = attempted)
    /\ [][indexingProgress'.current >= indexingProgress.current]_vars
    /\ [][searchAnswered =>
            /\ attempted < Len(Services) =>
                  /\ result'.partial
                  /\ result'.progress = <<indexingProgress.current, indexingProgress.total>>
            /\ indexingStatus = "complete" => ~result'.partial]_vars

\* an answer with the notice 1/2 and partial results
C28_Witness ==
    /\ result.op = "semantic_search"
    /\ result.partial
    /\ result.progress = <<1, Len(Services)>>
    /\ result.value # <<>>

\* the tokens of the stored document at position i
tokensAt(i) == tokenize(documents[i].content)

\* the stored documents that yield a token and have a TF vector
weighted == {i \in 1..Len(documents) :
                tokensAt(i) # <<>> /\ documents[i].id \in DOMAIN documentVectors}

\* the number that the code stores for a weight of the model
numberOf(weight) == divide(weight[1], weight[2])

\* the numbers stored for document i, in the order of the entries of its vector
numbersAt(i) ==
    Bind(distinct(tokensAt(i)), LAMBDA keys :
        [k \in 1..Len(keys) |-> numberOf(documentVectors[documents[i].id][keys[k]])])

\* the sum of the first k numbers, without rounding
RECURSIVE sumExactly(_, _)
sumExactly(numbers, k) ==
    IF k = 1 THEN numbers[1]
    ELSE Bind(sumExactly(numbers, k - 1), LAMBDA acc : addLimbs(acc, numbers[k]))

\* the sum of the first k numbers as the code would add them, one after the other
RECURSIVE sumAsDoubles(_, _)
sumAsDoubles(numbers, k) ==
    IF k = 1 THEN numbers[1]
    ELSE Bind(sumAsDoubles(numbers, k - 1), LAMBDA acc : plus(acc, numbers[k]))

\* | sum - 1 | <= n * 2^-52
withinRounding(sum, n) ==
    /\ limbsLeq(One, addLimbs(sum, <<0, 0, 0, n * 2^6>>))
    /\ limbsLeq(sum, addLimbs(One, <<0, 0, 0, n * 2^6>>))

isPowerOfTwo(n) == \E e \in 0..6 : n = 2^e

\* C29: for every stored document whose content yields n >= 1 tokens (n up
\* to 64), the weight of each token is (occurrences of the token) / n, stored
\* as the double nearest to this quotient, which lies in (0, 1]; the stored
\* numbers of one document sum to 1 up to rounding (within n * 2^-52, added
\* exactly or as doubles), and to exactly 1 when n is a power of two.
C29_WeightsSumToOneUpToRounding ==
    \A i \in weighted :
       Bind(tokensAt(i), LAMBDA tokens : Bind(numbersAt(i), LAMBDA numbers :
          /\ \A token \in Range(tokens) :
                /\ documentVectors[documents[i].id][token]
                      = Frac(countOf(token, tokens), Len(tokens))
                /\ numberOf(documentVectors[documents[i].id][token])
                      = divide(countOf(token, tokens), Len(tokens))
          /\ \A k \in 1..Len(numbers) :
                numbers[k] # <<0, 0, 0, 0>> /\ limbsLeq(numbers[k], One)
          /\ withinRounding(sumExactly(numbers, Len(numbers)), Len(tokens))
          /\ withinRounding(sumAsDoubles(numbers, Len(numbers)), Len(tokens))
          /\ isPowerOfTwo(Len(tokens)) =>
                /\ sumExactly(numbers, Len(numbers)) = One
                /\ sumAsDoubles(numbers, Len(numbers)) = One))

\* C29 as stated: every weight lies in (0, 1] and the weights of one document
\* sum to exactly 1 whatever its length, be they added exactly or as doubles
C29_WeightsSumToExactlyOne ==
    \A i \in weighted :
       Bind(numbersAt(i), LAMBDA numbers :
          /\ \A k \in 1..Len(numbers) :
                numbers[k] # <<0, 0, 0, 0>> /\ limbsLeq(numbers[k], One)
          /\ \/ sumExactly(numbers, Len(numbers)) = One
             \/ sumAsDoubles(numbers, Len(numbers)) = One)

\* a document of four tokens, one of them twice, and a document of six
\* different tokens are stored; the six numbers 1/6 do not sum to 1
C29_Witness ==
    /\ result.op = "indexDocuments"
    /\ \E i \in weighted :
          /\ Len(tokensAt(i)) = 4
          /\ \E token \in Range(tokensAt(i)) : countOf(token, tokensAt(i)) = 2
    /\ \E i \in weighted :
          /\ Len(tokensAt(i)) = 6
          /\ Len(numbersAt(i)) = 6
          /\ sumAsDoubles(numbersAt(i), 6) # One
          /\ sumExactly(numbersAt(i), 6) # One

====
